---- MODULE Spec2Model ----
(***************************************************************************)
(* Hit/gap analytics of nonce-lens: the live_streams / live_bets tables,   *)
(* the ingest handler that fills them and the read-only query handlers     *)
(* (get_stream_metrics, list_stream_bets) that compute gaps and statistics *)
(* over them.                                                              *)
(*                                                                         *)
(* Numbers.  round_result, multiplier and tolerance are REALs in the       *)
(* database; here they are integers counting thousandths (2004 is 2.004).  *)
(* Python floats computed by the handlers (mean_gap, eta_observed, ...)    *)
(* are exact rationals [num, den] in lowest terms.  std_gap is carried as  *)
(* its square (the variance): x ** 0.5 is injective on the non-negative    *)
(* reals, so an equation on std_gap is an equation on std_gap_sq.          *)
(* A nullable response field is <<>> (null) or <<v>> (the value v).        *)
(***************************************************************************)
EXTENDS Integers, Sequences, FiniteSets, TLC

VARIABLES live_streams, live_bets, resp, calls, sqlite_master, live_bets_backup

\* the tables and columns the database has beside live_streams, and the rows
\* of the table live_bets_backup
schema == <<sqlite_master, live_bets_backup>>

vars == <<live_streams, live_bets, resp, calls, sqlite_master, live_bets_backup>>

-----------------------------------------------------------------------------
(* Bounds and input sets *)

MaxBets == 3

Nonces == {1, 2, 3}

Results == {1994, 2004}

\* (seed pair, nonce, round_result) of an ingested bet: every nonce and result
\* on one stream, and two bets of a second stream beside it
IngestInputs ==
    ({"s1"} \X Nonces \X Results) \cup {<<"s2", 1, 2004>>, <<"s2", 2, 2004>>}

Multipliers == {2000, 2004}

Tolerances == {0, 1, 6}

BucketSizes == {0, 2}

\* (tolerance, bucket_size) of a metrics request: the valid pairs and one
\* request for each invalid argument
MetricsArgs == {<<1, 2>>, <<6, 3>>, <<0, 2>>, <<1, 0>>}

MultiplierLists == {<<>>, <<2000>>, <<2004>>, <<2004, 2000>>}

StreamIds == 1 .. 3

AntebotIds == 1 .. MaxBets + 1

TieOrders == {"id_asc", "id_desc"}

\* (limit, offset, min_multiplier) of a listing: everything, the first two or
\* one page inside the list, unfiltered or filtered, and one request for each
\* invalid argument
ListArgs ==
    ({<<3, 0>>, <<2, 0>>, <<1, 1>>} \X {<<>>, <<2000>>})
        \cup {<<<<0, 0>>, <<>>>>, <<<<1001, 0>>, <<>>>>, <<<<1, -1>>, <<>>>>, <<<<3, 0>>, <<-1>>>>}

Orders == {"nonce_asc", "id_desc"}

\* hit queries: (tolerance, after_nonce, before_nonce, limit) with the range
\* bounds optional, and the bucket lists of a batch
HitBuckets == {2000, 2004, -1}
HitsArgs == {<<6, <<>>, <<>>, 3>>, <<1, <<1>>, <<3>>, 3>>, <<6, <<1>>, <<>>, 1>>,
             <<6, <<>>, <<3>>, 1>>, <<0, <<>>, <<>>, 3>>, <<6, <<2>>, <<2>>, 3>>,
             <<6, <<>>, <<>>, 0>>, <<6, <<>>, <<>>, 1001>>}
BucketLists == {<<>>, <<2000>>, <<2004, 2000>>, <<2000, 2004>>, <<2000, -1>>}
MaxBuckets == 20
MaxLimit == 1000

\* the statistics of long gap sequences: up to MaxGaps gaps, each from GapValues
MaxGaps == 11
GapValues == {0, 3}
StatsMultiplierLists == {<<2004>>, <<2000, 2004>>}

-----------------------------------------------------------------------------
(* Values *)

Null == <<>>

Some(v) == <<v>>

Abs(x) == IF x < 0 THEN -x ELSE x

SetMax(S) == CHOOSE x \in S : \A y \in S : y <= x

RECURSIVE Gcd(_, _)
Gcd(a, b) == IF b = 0 THEN a ELSE Gcd(b, a % b)

\* the float n / d, d > 0
Rat(n, d) == LET g == Gcd(Abs(n), d) IN [num |-> n \div g, den |-> d \div g]

RatAdd(p, q) == Rat(p.num * q.den + q.num * p.den, p.den * q.den)

RECURSIVE SeqSum(_)
SeqSum(s) == IF s = <<>> THEN 0 ELSE Head(s) + SeqSum(Tail(s))

SeqMax(s) == SetMax({s[i] : i \in 1 .. Len(s)})

\* sorted(gaps)
RECURSIVE Sorted(_)
Sorted(s) ==
    IF s = <<>> THEN <<>>
    ELSE LET i == CHOOSE k \in 1 .. Len(s) : \A j \in 1 .. Len(s) : s[k] <= s[j]
         IN <<s[i]>> \o Sorted(SubSeq(s, 1, i - 1) \o SubSeq(s, i + 1, Len(s)))

-----------------------------------------------------------------------------
(* The tables *)

StreamOfSeed(seed) == {s \in live_streams : s.seed = seed}

StreamExists(stream_id) == \E s \in live_streams : s.id = stream_id

\* a :stream_id parameter selects the rows that carry this stream's id,
\* whether the handler binds the UUID or its string form
BetsOf(stream_id) == {b \in live_bets : b.stream_id = stream_id}

\* the requests that overlap in time: one per client, NoCall for a client with
\* no request in flight
\* create_db_and_tables(): live_bets as the model class declares it, without
\* the column bucket_2dp
CreatedTables == {"live_bets"}

Clients == {"c1", "c2"}

NoCall == [op |-> "none"]

\* the stream ids the requests in flight hold
HeldStreamIds == {calls[c].stream_id : c \in {c \in Clients : calls[c] # NoCall}}

\* uuid4(): an id no stream carries and no request holds; which one it is
\* does not matter, so it is the smallest
NewStreamId ==
    LET used == {s.id : s \in live_streams} \cup HeldStreamIds
    IN  CHOOSE i \in 1 .. Cardinality(used) + 1 :
            /\ i \notin used
            /\ \A j \in 1 .. i - 1 : j \in used

\* INTEGER PRIMARY KEY: the largest rowid in the table plus one
NewBetId == SetMax({b.id : b \in live_bets} \cup {0}) + 1

\* the ids Antebot has not used in this stream are interchangeable: a new bet
\* carries the smallest of them
FreshAntebotId(stream_id) ==
    CHOOSE a \in AntebotIds :
        /\ \A b \in BetsOf(stream_id) : b.antebot_bet_id # a
        /\ \A a2 \in AntebotIds :
              a2 < a => \E b \in BetsOf(stream_id) : b.antebot_bet_id = a2

-----------------------------------------------------------------------------
(* POST /live/ingest *)

\* The client of the tests awaits each response before it sends its next
\* request: resp holds the response of the request being answered, NoResponse
\* once the client has taken it.
NoResponse == [kind |-> "none"]

Idle == resp = NoResponse

AwaitResponse ==
    /\ resp # NoResponse
    /\ resp' = NoResponse
    /\ UNCHANGED <<live_streams, live_bets, calls, schema>>

\* datetime.utcnow() at a write: a reading is only compared with the readings
\* stored for the same stream by earlier writes, all of them older than the
\* stream's newest bet, so the reading at a write is the ordinal of that write
UtcNow == NewBetId

\* UPDATE live_streams SET last_seen_at = :now WHERE id = :stream_id
TouchStream(streams, stream_id, now) ==
    {IF s.id = stream_id THEN [s EXCEPT !.last_seen_at = now] ELSE s : s \in streams}

\* an ingest that stamps the stream before it looks for the duplicate
IngestBetTouchingFirst(seed, antebot_bet_id, nonce, round_result) ==
    LET found == StreamOfSeed(seed)
        sid == IF found = {} THEN NewStreamId ELSE (CHOOSE s \in found : TRUE).id
        streams2 == IF found = {}
                    THEN live_streams \cup {[id |-> sid, seed |-> seed, last_seen_at |-> UtcNow]}
                    ELSE live_streams
        dup == \E b \in live_bets : b.stream_id = sid /\ b.antebot_bet_id = antebot_bet_id
    IN  /\ Idle
        /\ UNCHANGED <<calls, schema>>
        /\ sid \in StreamIds
        /\ antebot_bet_id \in {b.antebot_bet_id : b \in BetsOf(sid)} \cup {FreshAntebotId(sid)}
        /\ live_streams' = TouchStream(streams2, sid, UtcNow)
        /\ IF dup
           THEN /\ live_bets' = live_bets
                /\ resp' = [kind |-> "ingest", status |-> 200, streamId |-> sid, accepted |-> FALSE]
           ELSE /\ Cardinality(live_bets) < MaxBets
                /\ live_bets' = live_bets \cup
                       {[id |-> NewBetId, stream_id |-> sid, antebot_bet_id |-> antebot_bet_id,
                         nonce |-> nonce, round_result |-> round_result]}
                /\ resp' = [kind |-> "ingest", status |-> 200, streamId |-> sid, accepted |-> TRUE]

IngestBet(seed, antebot_bet_id, nonce, round_result) ==
    LET found == StreamOfSeed(seed)
        sid == IF found = {} THEN NewStreamId ELSE (CHOOSE s \in found : TRUE).id
        streams2 == IF found = {}
                    THEN live_streams \cup {[id |-> sid, seed |-> seed, last_seen_at |-> UtcNow]}
                    ELSE live_streams
        dup == \E b \in live_bets : b.stream_id = sid /\ b.antebot_bet_id = antebot_bet_id
    IN  /\ Idle
        /\ UNCHANGED <<calls, schema>>
        /\ sid \in StreamIds
        /\ antebot_bet_id \in {b.antebot_bet_id : b \in BetsOf(sid)} \cup {FreshAntebotId(sid)}
        /\ live_streams' = IF dup THEN streams2 ELSE TouchStream(streams2, sid, UtcNow)
        /\ IF dup
           THEN /\ live_bets' = live_bets
                /\ resp' = [kind |-> "ingest", status |-> 200, streamId |-> sid, accepted |-> FALSE]
           ELSE /\ Cardinality(live_bets) < MaxBets
                /\ live_bets' = live_bets \cup
                       {[id |-> NewBetId, stream_id |-> sid, antebot_bet_id |-> antebot_bet_id,
                         nonce |-> nonce, round_result |-> round_result]}
                /\ resp' = [kind |-> "ingest", status |-> 200, streamId |-> sid, accepted |-> TRUE]

-----------------------------------------------------------------------------
(* SQL building blocks *)

\* a window ordered by insertion (id) instead of by nonce
IdBefore(a, b, tie) == a.id < b.id

\* ORDER BY nonce: rows of equal nonce come in the order the engine happens to
\* produce them, which the statement does not fix; tie is that order
NonceBefore(a, b, tie) ==
    \/ a.nonce < b.nonce
    \/ /\ a.nonce = b.nonce
       /\ IF tie = "id_asc" THEN a.id < b.id ELSE a.id > b.id

RECURSIVE OrderByNonce(_, _)
OrderByNonce(rows, tie) ==
    IF rows = {} THEN <<>>
    ELSE LET first == CHOOSE r \in rows : \A o \in rows \ {r} : NonceBefore(r, o, tie)
         IN <<first>> \o OrderByNonce(rows \ {first}, tie)

\* the window function with its null coalesced: the first row gets 0
LagGapCoalesced(ordered, i) ==
    IF i = 1 THEN Some(0) ELSE Some(ordered[i].nonce - ordered[i - 1].nonce)

\* the distance to the first row of the window instead of the previous one
LagGapToFirst(ordered, i) ==
    IF i = 1 THEN Null ELSE Some(ordered[i].nonce - ordered[1].nonce)

\* nonce - LAG(nonce) OVER (ORDER BY nonce), for the i-th row of the window
LagGap(ordered, i) ==
    IF i = 1 THEN Null ELSE Some(ordered[i].nonce - ordered[i - 1].nonce)

\* a key that cuts the third decimal off
Bucket2dpTruncated(round_result) == round_result \div 10

\* ROUND(round_result, 2): hundredths, halves away from zero
Bucket2dp(round_result) == (round_result + 5) \div 10

-----------------------------------------------------------------------------
(* GET /live/streams/{stream_id}/metrics *)

\* WHERE stream_id = :stream_id AND ABS(round_result - :multiplier) <= :tolerance
MultiplierMatches(bets, stream_id, multiplier, tolerance) ==
    {b \in bets : b.stream_id = stream_id
                  /\ Abs(b.round_result - multiplier) <= tolerance}

\* multiplier_rows: (nonce, gap) in nonce order; received_at is selected too
\* but never read
MultiplierRows(bets, stream_id, multiplier, tolerance, tie) ==
    LET ordered == OrderByNonce(MultiplierMatches(bets, stream_id, multiplier, tolerance), tie)
    IN  [i \in 1 .. Len(ordered) |->
            [nonce |-> ordered[i].nonce, gap |-> LagGap(ordered, i)]]

\* gaps = [row[2] for row in multiplier_rows[1:] if row[2] is not None]
RECURSIVE GapsFrom(_, _)
GapsFrom(rows, i) ==
    IF i > Len(rows) THEN <<>>
    ELSE (IF rows[i].gap # Null THEN <<rows[i].gap[1]>> ELSE <<>>) \o GapsFrom(rows, i + 1)

GapsOf(rows) == GapsFrom(rows, 2)

\* the sum of the gaps over the number of hits instead of the number of gaps
MeanGapPerHit(gaps) == Rat(SeqSum(gaps), Len(gaps) + 1)

\* mean_gap = sum(gaps) / len(gaps)
MeanGap(gaps) == Rat(SeqSum(gaps), Len(gaps))

\* the sample variance: the squared deviations over len(gaps) - 1
SampleVariance(gaps) ==
    LET n == Len(gaps)
        s == SeqSum(gaps)
        sq == [i \in 1 .. n |-> (n * gaps[i] - s) * (n * gaps[i] - s)]
    IN  IF n = 1 THEN Rat(0, 1) ELSE Rat(SeqSum(sq), n * n * (n - 1))

\* variance = sum((gap - mean_gap) ** 2 for gap in gaps) / len(gaps)
\* With mean_gap = s / n each term (gap - s / n) ** 2 is (n * gap - s) ** 2 / n ** 2.
Variance(gaps) ==
    LET n == Len(gaps)
        s == SeqSum(gaps)
        sq == [i \in 1 .. n |-> (n * gaps[i] - s) * (n * gaps[i] - s)]
    IN  Rat(SeqSum(sq), n * n * n)

\* the index rounded up instead of truncated
P90IndexCeil(n) == (9 * n + 9) \div 10

\* p90_index = int(0.9 * len(sorted_gaps))
P90Index(n) == (9 * n) \div 10

\* p90_gap = sorted_gaps[min(p90_index, len(sorted_gaps) - 1)]   (0-based)
P90Gap(gaps) ==
    LET sorted_gaps == Sorted(gaps)
        idx == IF P90Index(Len(gaps)) < Len(gaps) - 1 THEN P90Index(Len(gaps))
               ELSE Len(gaps) - 1
    IN  sorted_gaps[idx + 1]

\* the MultiplierMetrics entry built from one multiplier's rows
MultiplierMetrics(multiplier, rows) ==
    IF rows # <<>>
    THEN LET count == Len(rows)
             last_nonce == rows[Len(rows)].nonce
             gaps == GapsOf(rows)
         IN  IF gaps # <<>>
             THEN [multiplier |-> multiplier, count |-> count, last_nonce |-> last_nonce,
                   mean_gap |-> Some(MeanGap(gaps)),
                   std_gap_sq |-> Some(Variance(gaps)),
                   p90_gap |-> Some(Rat(P90Gap(gaps), 1)),
                   max_gap |-> Some(SeqMax(gaps)),
                   eta_theoretical |-> Null,
                   eta_observed |-> Some(RatAdd(Rat(last_nonce, 1), MeanGap(gaps)))]
             ELSE [multiplier |-> multiplier, count |-> count, last_nonce |-> last_nonce,
                   mean_gap |-> Some(Rat(0, 1)),
                   std_gap_sq |-> Some(Rat(0, 1)),
                   p90_gap |-> Some(Rat(0, 1)),
                   max_gap |-> Some(0),
                   eta_theoretical |-> Null,
                   eta_observed |-> Some(Rat(last_nonce, 1))]
    ELSE [multiplier |-> multiplier, count |-> 0, last_nonce |-> 0,
          mean_gap |-> Some(Rat(0, 1)),
          std_gap_sq |-> Some(Rat(0, 1)),
          p90_gap |-> Some(Rat(0, 1)),
          max_gap |-> Some(0),
          eta_theoretical |-> Null,
          eta_observed |-> Some(Rat(0, 1))]

\* a loop whose query is bound to the last requested multiplier instead of the
\* one the entry is for
RECURSIVE MultiplierStatsLoopLateBound(_, _, _, _, _)
MultiplierStatsLoopLateBound(bets, stream_id, multipliers, tolerance, multiplier_stats) ==
    IF multipliers = <<>> THEN multiplier_stats
    ELSE MultiplierStatsLoopLateBound(bets, stream_id, Tail(multipliers), tolerance,
             Append(multiplier_stats,
                    MultiplierMetrics(Head(multipliers),
                        MultiplierRows(bets, stream_id, multipliers[Len(multipliers)],
                                       tolerance, "id_asc"))))

\* for multiplier in multipliers: ... multiplier_stats.append(...)
\* The rows carry nonce and gap only, which are the same under every order of
\* the rows of equal nonce.
RECURSIVE MultiplierStatsLoop(_, _, _, _, _)
MultiplierStatsLoop(bets, stream_id, multipliers, tolerance, multiplier_stats) ==
    IF multipliers = <<>> THEN multiplier_stats
    ELSE MultiplierStatsLoop(bets, stream_id, Tail(multipliers), tolerance,
             Append(multiplier_stats,
                    MultiplierMetrics(Head(multipliers),
                        MultiplierRows(bets, stream_id, Head(multipliers), tolerance,
                                       "id_asc"))))

\* a histogram filled with a zero for every empty window below the last one
DensityBucketsZeroFilled(bets, stream_id, bucket_size) ==
    LET mine == {b \in bets : b.stream_id = stream_id}
        keys == 0 .. SetMax({b.nonce \div bucket_size : b \in mine})
    IN  [k \in keys |-> Cardinality({b \in mine : b.nonce \div bucket_size = k})]

\* GROUP BY CAST(nonce / :bucket_size AS INTEGER): one key per window that
\* holds a bet, mapped to the number of bets in it
DensityBuckets(bets, stream_id, bucket_size) ==
    LET mine == {b \in bets : b.stream_id = stream_id}
        keys == {b.nonce \div bucket_size : b \in mine}
    IN  [k \in keys |-> Cardinality({b \in mine : b.nonce \div bucket_size = k})]

MetricsResponse(bets, stream_id, multipliers, tolerance, bucket_size) ==
    LET total_bets == Cardinality({b \in bets : b.stream_id = stream_id})
    IN  [kind |-> "metrics", status |-> 200, stream_id |-> stream_id,
         multipliers |-> multipliers, tolerance |-> tolerance, bucket_size |-> bucket_size,
         total_bets |-> total_bets,
         multiplier_stats |->
             MultiplierStatsLoop(bets, stream_id, multipliers, tolerance, <<>>),
         density_buckets |->
             IF total_bets > 0 THEN DensityBuckets(bets, stream_id, bucket_size) ELSE <<>>]

ErrorResponse(status) == [kind |-> "error", status |-> status]

\* a handler that looks the stream up before it validates its arguments
MetricsResultLookupFirst(stream_id, multipliers, tolerance, bucket_size) ==
    IF ~StreamExists(stream_id) THEN ErrorResponse(404)
    ELSE IF tolerance <= 0 THEN ErrorResponse(400)
    ELSE IF bucket_size <= 0 THEN ErrorResponse(400)
    ELSE MetricsResponse(live_bets, stream_id, multipliers, tolerance, bucket_size)

\* what the handler answers: its validation, its stream lookup, its payload
MetricsResult(stream_id, multipliers, tolerance, bucket_size) ==
    IF tolerance <= 0 THEN ErrorResponse(400)
    ELSE IF bucket_size <= 0 THEN ErrorResponse(400)
    ELSE IF ~StreamExists(stream_id) THEN ErrorResponse(404)
    ELSE MetricsResponse(live_bets, stream_id, multipliers, tolerance, bucket_size)

GetStreamMetrics(stream_id, multipliers, tolerance, bucket_size) ==
    /\ Idle
    /\ resp' = MetricsResult(stream_id, multipliers, tolerance, bucket_size)
    /\ UNCHANGED <<live_streams, live_bets, calls, schema>>

-----------------------------------------------------------------------------
(* GET /live/streams/{stream_id}/bets *)

\* WHERE stream_id = :stream_id [AND round_result >= min_multiplier]
ListMatches(bets, stream_id, min_multiplier) ==
    {b \in bets : b.stream_id = stream_id
                  /\ (min_multiplier # Null => b.round_result >= min_multiplier[1])}

\* nonce - LAG(nonce) OVER (PARTITION BY round_result ORDER BY nonce) of row b
\* among the rows the WHERE clause kept
DistancePrev(matches, b, tie) ==
    LET partition == OrderByNonce({o \in matches : o.round_result = b.round_result}, tie)
        i == CHOOSE k \in 1 .. Len(partition) : partition[k] = b
    IN  LagGap(partition, i)

\* ORDER BY id DESC
RECURSIVE OrderByIdDesc(_)
OrderByIdDesc(rows) ==
    IF rows = {} THEN <<>>
    ELSE LET first == CHOOSE r \in rows : \A o \in rows : o.id <= r.id
         IN <<first>> \o OrderByIdDesc(rows \ {first})

\* a page that runs one row past the limit
LimitOffsetOneMore(rows, limit, offset) ==
    SubSeq(rows, offset + 1,
           IF offset + limit + 1 < Len(rows) THEN offset + limit + 1 ELSE Len(rows))

\* LIMIT :limit OFFSET :offset
LimitOffset(rows, limit, offset) ==
    SubSeq(rows, offset + 1, IF offset + limit < Len(rows) THEN offset + limit ELSE Len(rows))

BetRecord(b, distance_prev_opt) ==
    [id |-> b.id, antebot_bet_id |-> b.antebot_bet_id, nonce |-> b.nonce,
     round_result |-> b.round_result, distance_prev_opt |-> distance_prev_opt]

\* a listing whose window runs over the rows of the page only
BetListResponsePageWindow(bets, stream_id, limit, offset, min_multiplier, order, include_distance, tie) ==
    LET matches == ListMatches(bets, stream_id, min_multiplier)
        ordered == IF order = "nonce_asc" THEN OrderByNonce(matches, tie)
                   ELSE OrderByIdDesc(matches)
        page == LimitOffset(ordered, limit, offset)
        shown == {page[i] : i \in 1 .. Len(page)}
    IN  [kind |-> "bets", status |-> 200, stream_id |-> stream_id,
         limit |-> limit, offset |-> offset, min_multiplier |-> min_multiplier,
         order |-> order, include_distance |-> include_distance,
         total |-> Cardinality(matches),
         bets |-> [i \in 1 .. Len(page) |->
                      BetRecord(page[i],
                                IF include_distance THEN DistancePrev(shown, page[i], tie)
                                ELSE Null)]]

BetListResponse(bets, stream_id, limit, offset, min_multiplier, order, include_distance, tie) ==
    LET matches == ListMatches(bets, stream_id, min_multiplier)
        ordered == IF order = "nonce_asc" THEN OrderByNonce(matches, tie)
                   ELSE OrderByIdDesc(matches)
        page == LimitOffset(ordered, limit, offset)
    IN  [kind |-> "bets", status |-> 200, stream_id |-> stream_id,
         limit |-> limit, offset |-> offset, min_multiplier |-> min_multiplier,
         order |-> order, include_distance |-> include_distance,
         total |-> Cardinality(matches),
         bets |-> [i \in 1 .. Len(page) |->
                      BetRecord(page[i],
                                IF include_distance THEN DistancePrev(matches, page[i], tie)
                                ELSE Null)]]

BetListResult(stream_id, limit, offset, min_multiplier, order, include_distance, tie) ==
    IF limit > 1000 THEN ErrorResponse(400)
    ELSE IF limit < 1 THEN ErrorResponse(400)
    ELSE IF offset < 0 THEN ErrorResponse(400)
    ELSE IF min_multiplier # Null /\ min_multiplier[1] < 0 THEN ErrorResponse(400)
    ELSE IF ~StreamExists(stream_id) THEN ErrorResponse(404)
    ELSE BetListResponse(live_bets, stream_id, limit, offset, min_multiplier,
                         order, include_distance, tie)

ListStreamBets(stream_id, limit, offset, min_multiplier, order, include_distance, tie) ==
    /\ Idle
    /\ resp' = BetListResult(stream_id, limit, offset, min_multiplier, order,
                             include_distance, tie)
    /\ UNCHANGED <<live_streams, live_bets, calls, schema>>

-----------------------------------------------------------------------------
(* GET /live/streams/{stream_id}/tail *)

SinceIds == 0 .. MaxBets

\* a tail that starts at since_id itself
TailMatchesFromSinceId(bets, stream_id, since_id) ==
    {b \in bets : b.stream_id = stream_id /\ b.id >= since_id}

\* WHERE stream_id = :stream_id AND id > :since_id
TailMatches(bets, stream_id, since_id) ==
    {b \in bets : b.stream_id = stream_id /\ b.id > since_id}

\* ORDER BY id ASC
RECURSIVE OrderByIdAsc(_)
OrderByIdAsc(rows) ==
    IF rows = {} THEN <<>>
    ELSE LET first == CHOOSE r \in rows : \A o \in rows : r.id <= o.id
         IN <<first>> \o OrderByIdAsc(rows \ {first})

\* The window of distance_query runs over the rows its WHERE clause kept, the
\* bets with id > since_id.
TailResponse(bets, stream_id, since_id, include_distance, tie) ==
    LET matches == TailMatches(bets, stream_id, since_id)
        new_bet_records == OrderByIdAsc(matches)
    IN  [kind |-> "tail", status |-> 200, stream_id |-> stream_id,
         since_id |-> since_id, include_distance |-> include_distance,
         bets |-> [i \in 1 .. Len(new_bet_records) |->
                      BetRecord(new_bet_records[i],
                                IF include_distance
                                THEN DistancePrev(matches, new_bet_records[i], tie)
                                ELSE Null)],
         last_id |-> IF new_bet_records # <<>>
                     THEN Some(new_bet_records[Len(new_bet_records)].id)
                     ELSE Null,
         has_more |-> FALSE]

TailResult(stream_id, since_id, include_distance, tie) ==
    IF since_id < 0 THEN ErrorResponse(400)
    ELSE IF ~StreamExists(stream_id) THEN ErrorResponse(404)
    ELSE TailResponse(live_bets, stream_id, since_id, include_distance, tie)

TailStreamBets(stream_id, since_id, include_distance, tie) ==
    /\ Idle
    /\ resp' = TailResult(stream_id, since_id, include_distance, tie)
    /\ UNCHANGED <<live_streams, live_bets, calls, schema>>

-----------------------------------------------------------------------------
(* GET /live/streams/{stream_id}/hits and /hits/batch *)

\* a range that keeps the event on its lower bound: after_nonce <= nonce
HitsInRangeFromAfter(bets, stream_id, bucket, tolerance, after_nonce, before_nonce) ==
    {b \in {m \in bets : m.stream_id = stream_id /\ Abs(m.round_result - bucket) <= tolerance} :
        /\ after_nonce # Null => b.nonce >= after_nonce[1]
        /\ before_nonce # Null => b.nonce < before_nonce[1]}

\* the events of the stream that match the bucket within the tolerance and
\* whose nonce lies in the range after_nonce < nonce < before_nonce
HitsInRange(bets, stream_id, bucket, tolerance, after_nonce, before_nonce) ==
    {b \in MultiplierMatches(bets, stream_id, bucket, tolerance) :
        /\ after_nonce # Null => b.nonce > after_nonce[1]
        /\ before_nonce # Null => b.nonce < before_nonce[1]}

\* the hits in ascending nonce order (equal nonces in arrival order), each with
\* the gap to the hit before it
HitRows(bets, stream_id, bucket, tolerance, after_nonce, before_nonce) ==
    LET ordered == OrderByNonce(HitsInRange(bets, stream_id, bucket, tolerance,
                                            after_nonce, before_nonce), "id_asc")
    IN  [i \in 1 .. Len(ordered) |->
            [id |-> ordered[i].id, nonce |-> ordered[i].nonce,
             bucket |-> Bucket2dp(ordered[i].round_result),
             distance_prev |-> LagGap(ordered, i)]]

\* the nearest matching event strictly below after_nonce
PrevNonceBelowAfterNonce(bets, stream_id, bucket, tolerance, after_nonce) ==
    LET earlier == IF after_nonce = Null THEN {}
                   ELSE {b.nonce : b \in {m \in MultiplierMatches(bets, stream_id, bucket, tolerance) :
                                             m.nonce < after_nonce[1]}}
    IN  IF earlier = {} THEN Null ELSE Some(SetMax(earlier))

\* the nonce of the nearest matching event at or below after_nonce
PrevNonceBeforeRange(bets, stream_id, bucket, tolerance, after_nonce) ==
    LET earlier == IF after_nonce = Null THEN {}
                   ELSE {b.nonce : b \in {m \in MultiplierMatches(bets, stream_id, bucket, tolerance) :
                                             m.nonce <= after_nonce[1]}}
    IN  IF earlier = {} THEN Null ELSE Some(SetMax(earlier))

\* the defined gaps of the hits after the first
HitGaps(rows) ==
    GapsOf([i \in 1 .. Len(rows) |-> [nonce |-> rows[i].nonce, gap |-> rows[i].distance_prev]])

\* the statistics of a gap sequence; all null but count when it is empty
HitStats(gaps) ==
    IF gaps = <<>>
    THEN [count |-> 0, mean |-> Null, min |-> Null, max |-> Null, method |-> "exact"]
    ELSE [count |-> Len(gaps), mean |-> Some(MeanGap(gaps)),
          min |-> Some(Sorted(gaps)[1]), max |-> Some(SeqMax(gaps)), method |-> "exact"]

HitsResponse(bets, stream_id, bucket, tolerance, after_nonce, before_nonce, limit) ==
    LET rows == HitRows(bets, stream_id, bucket, tolerance, after_nonce, before_nonce)
    IN  [kind |-> "hits", status |-> 200, stream_id |-> stream_id, bucket |-> bucket,
         tolerance |-> tolerance, after_nonce |-> after_nonce, before_nonce |-> before_nonce,
         limit |-> limit,
         hits |-> LimitOffset(rows, limit, 0),
         total_in_range |-> Len(rows),
         prev_nonce_before_range |->
             PrevNonceBeforeRange(bets, stream_id, bucket, tolerance, after_nonce)]

InvertedRange(after_nonce, before_nonce) ==
    after_nonce # Null /\ before_nonce # Null /\ before_nonce[1] <= after_nonce[1]

HitsResult(stream_id, bucket, tolerance, after_nonce, before_nonce, limit) ==
    IF bucket < 0 THEN ErrorResponse(400)
    ELSE IF tolerance <= 0 THEN ErrorResponse(400)
    ELSE IF InvertedRange(after_nonce, before_nonce) THEN ErrorResponse(400)
    ELSE IF limit < 1 \/ limit > MaxLimit THEN ErrorResponse(422)
    ELSE IF ~StreamExists(stream_id) THEN ErrorResponse(404)
    ELSE HitsResponse(live_bets, stream_id, bucket, tolerance, after_nonce, before_nonce, limit)

GetHits(stream_id, bucket, tolerance, after_nonce, before_nonce, limit) ==
    /\ Idle
    /\ resp' = HitsResult(stream_id, bucket, tolerance, after_nonce, before_nonce, limit)
    /\ UNCHANGED <<live_streams, live_bets, calls, schema>>

\* a batch that leaves out the buckets without a hit
BatchResponseSparse(bets, stream_id, buckets, tolerance, after_nonce, before_nonce, limit_per_bucket) ==
    LET keys == {buckets[i] : i \in 1 .. Len(buckets)}
        hit == {bucket \in keys :
                   HitRows(bets, stream_id, bucket, tolerance, after_nonce, before_nonce) # <<>>}
    IN  [kind |-> "hits_batch", status |-> 200, stream_id |-> stream_id, buckets |-> buckets,
         tolerance |-> tolerance, after_nonce |-> after_nonce, before_nonce |-> before_nonce,
         limit_per_bucket |-> limit_per_bucket,
         hits_by_bucket |->
             [bucket \in hit |->
                 LimitOffset(HitRows(bets, stream_id, bucket, tolerance, after_nonce, before_nonce),
                             limit_per_bucket, 0)],
         stats_by_bucket |->
             [bucket \in hit |->
                 HitStats(HitGaps(HitRows(bets, stream_id, bucket, tolerance,
                                          after_nonce, before_nonce)))]]

\* one entry per requested bucket value, each computed on its own
BatchResponse(bets, stream_id, buckets, tolerance, after_nonce, before_nonce, limit_per_bucket) ==
    LET keys == {buckets[i] : i \in 1 .. Len(buckets)}
    IN  [kind |-> "hits_batch", status |-> 200, stream_id |-> stream_id, buckets |-> buckets,
         tolerance |-> tolerance, after_nonce |-> after_nonce, before_nonce |-> before_nonce,
         limit_per_bucket |-> limit_per_bucket,
         hits_by_bucket |->
             [bucket \in keys |->
                 LimitOffset(HitRows(bets, stream_id, bucket, tolerance, after_nonce, before_nonce),
                             limit_per_bucket, 0)],
         stats_by_bucket |->
             [bucket \in keys |->
                 HitStats(HitGaps(HitRows(bets, stream_id, bucket, tolerance,
                                          after_nonce, before_nonce)))]]

BatchResult(stream_id, buckets, tolerance, after_nonce, before_nonce, limit_per_bucket) ==
    IF buckets = <<>> THEN ErrorResponse(400)
    ELSE IF Len(buckets) > MaxBuckets THEN ErrorResponse(400)
    ELSE IF \E i \in 1 .. Len(buckets) : buckets[i] < 0 THEN ErrorResponse(400)
    ELSE IF tolerance <= 0 THEN ErrorResponse(400)
    ELSE IF InvertedRange(after_nonce, before_nonce) THEN ErrorResponse(400)
    ELSE IF limit_per_bucket < 1 \/ limit_per_bucket > MaxLimit THEN ErrorResponse(422)
    ELSE IF ~StreamExists(stream_id) THEN ErrorResponse(404)
    ELSE BatchResponse(live_bets, stream_id, buckets, tolerance,
                       after_nonce, before_nonce, limit_per_bucket)

GetHitsBatch(stream_id, buckets, tolerance, after_nonce, before_nonce, limit_per_bucket) ==
    /\ Idle
    /\ resp' = BatchResult(stream_id, buckets, tolerance, after_nonce, before_nonce,
                           limit_per_bucket)
    /\ UNCHANGED <<live_streams, live_bets, calls, schema>>

-----------------------------------------------------------------------------

Init ==
    /\ live_streams = {}
    /\ live_bets = {}
    /\ resp = NoResponse
    /\ calls = [c \in Clients |-> NoCall]
    /\ sqlite_master = CreatedTables
    /\ live_bets_backup = {}

Next ==
    \/ \E bet_data \in IngestInputs, antebot_bet_id \in AntebotIds :
          IngestBet(bet_data[1], antebot_bet_id, bet_data[2], bet_data[3])
    \/ \E stream_id \in StreamIds, multipliers \in MultiplierLists, args \in MetricsArgs :
          GetStreamMetrics(stream_id, multipliers, args[1], args[2])
    \/ AwaitResponse

Spec == Init /\ [][Next]_vars

\* the listing handler in place of the metrics handler
NextBets ==
    \/ \E bet_data \in IngestInputs, antebot_bet_id \in AntebotIds :
          IngestBet(bet_data[1], antebot_bet_id, bet_data[2], bet_data[3])
    \/ \E stream_id \in StreamIds, args \in ListArgs, order \in Orders,
          include_distance \in BOOLEAN, tie \in TieOrders :
          ListStreamBets(stream_id, args[1][1], args[1][2], args[2], order,
                         include_distance, tie)
    \/ AwaitResponse

SpecBets == Init /\ [][NextBets]_vars

NextHits ==
    \/ \E bet_data \in IngestInputs, antebot_bet_id \in AntebotIds :
          IngestBet(bet_data[1], antebot_bet_id, bet_data[2], bet_data[3])
    \/ \E stream_id \in StreamIds, bucket \in HitBuckets, args \in HitsArgs :
          GetHits(stream_id, bucket, args[1], args[2], args[3], args[4])
    \/ \E stream_id \in StreamIds, buckets \in BucketLists, args \in HitsArgs :
          GetHitsBatch(stream_id, buckets, args[1], args[2], args[3], args[4])
    \/ AwaitResponse

SpecHits == Init /\ [][NextHits]_vars

\* A stream whose hits of one multiplier are MaxGaps gaps apart at most: the
\* table after its bets were ingested in nonce order.
GapSeqs == UNION {[1 .. n -> GapValues] : n \in 0 .. MaxGaps}

RECURSIVE NonceAfter(_, _)
NonceAfter(gaps, j) == IF j = 0 THEN 1 ELSE NonceAfter(gaps, j - 1) + gaps[j]

TableOfGaps(gaps) ==
    {[id |-> j + 1, stream_id |-> 1, antebot_bet_id |-> j + 1,
      nonce |-> NonceAfter(gaps, j), round_result |-> 2004] : j \in 0 .. Len(gaps)}

InitStats ==
    /\ \E gaps \in GapSeqs :
          /\ live_streams = {[id |-> 1, seed |-> "s1", last_seen_at |-> Len(gaps) + 1]}
          /\ live_bets = TableOfGaps(gaps)
    /\ resp = NoResponse
    /\ calls = [c \in Clients |-> NoCall]
    /\ sqlite_master = CreatedTables
    /\ live_bets_backup = {}

NextStats ==
    \/ \E multipliers \in StatsMultiplierLists, args \in MetricsArgs :
          GetStreamMetrics(1, multipliers, args[1], args[2])
    \/ AwaitResponse

SpecStats == InitStats /\ [][NextStats]_vars

-----------------------------------------------------------------------------
(* Requests in flight: each handler between one await and the next *)

\* what the clients send while another request is in flight
ConcurrentInputs == {<<"s1", 1, 2004>>, <<"s1", 2, 2004>>, <<"s2", 1, 2004>>}

ConcurrentAntebotIds == {1, 2}

\* what they send while a query is in flight: bets of the stream it reads
InFlightInputs == {<<"s1", 1, 2004>>, <<"s1", 2, 2004>>}

ConcurrentMetricsArgs == {<<<<2004>>, 1, 2>>, <<<<2004>>, 0, 2>>}

\* the ingests in flight that may still store a bet
PendingIngests == {c \in Clients : calls[c].op = "ingest" /\ calls[c].pc # "done"}

At(c, op, pc) == calls[c].op = op /\ calls[c].pc = pc

Goto(c, pc) == calls' = [calls EXCEPT ![c].pc = pc]

Return(c, response) == calls' = [calls EXCEPT ![c].pc = "done", ![c].response = response]

IngestResponse(stream_id, accepted) ==
    [kind |-> "ingest", status |-> 200, streamId |-> stream_id, accepted |-> accepted]

\* the client has its response
TakeResponse(c) ==
    /\ calls[c] # NoCall
    /\ calls[c].pc = "done"
    /\ calls' = [calls EXCEPT ![c] = NoCall]
    /\ UNCHANGED <<live_streams, live_bets, resp, schema>>

\* ingest_bet up to the result of its stream query. stored_at_start records
\* whether the bet was stored when the request arrived.
IngestFindStream(c, seed, antebot_bet_id, nonce, round_result) ==
    LET found == StreamOfSeed(seed)
    IN  /\ calls[c] = NoCall
        /\ NewBetId + Cardinality(PendingIngests) <= MaxBets
        /\ calls' = [calls EXCEPT ![c] =
               [op |-> "ingest",
                pc |-> IF found = {} THEN "create_stream" ELSE "check_duplicate",
                seed |-> seed, antebot_bet_id |-> antebot_bet_id,
                nonce |-> nonce, round_result |-> round_result,
                stream_id |-> IF found = {} THEN 0 ELSE (CHOOSE s \in found : TRUE).id,
                stored_at_start |->
                    \E s \in found, b \in live_bets :
                        b.stream_id = s.id /\ b.antebot_bet_id = antebot_bet_id,
                lost_race |-> FALSE,
                created_stream |-> FALSE,
                response |-> NoResponse]]
        /\ UNCHANGED <<live_streams, live_bets, resp, schema>>

\* session.add(new_stream); commit: the unique index on the seed pair refuses
\* a second stream of the pair (IntegrityError, rollback). lost_race records
\* that refusal, created_stream that this request committed the stream.
IngestCreateStream(c) ==
    /\ At(c, "ingest", "create_stream")
    /\ IF StreamOfSeed(calls[c].seed) = {}
       THEN /\ live_streams' = live_streams \cup
                   {[id |-> NewStreamId, seed |-> calls[c].seed, last_seen_at |-> UtcNow]}
            /\ calls' = [calls EXCEPT ![c].pc = "check_duplicate",
                                      ![c].stream_id = NewStreamId,
                                      ![c].created_stream = TRUE]
       ELSE /\ calls' = [calls EXCEPT ![c].pc = "reselect_stream", ![c].lost_race = TRUE]
            /\ UNCHANGED live_streams
    /\ UNCHANGED <<live_bets, resp, schema>>

\* the stream query again, after the rollback: scalar_one() raises when the
\* stream is gone again, which the handler turns into a 500
IngestReselectStream(c) ==
    LET found == StreamOfSeed(calls[c].seed)
    IN  /\ At(c, "ingest", "reselect_stream")
        /\ IF found = {}
           THEN Return(c, ErrorResponse(500))
           ELSE calls' = [calls EXCEPT ![c].pc = "check_duplicate",
                                       ![c].stream_id = (CHOOSE s \in found : TRUE).id]
        /\ UNCHANGED <<live_streams, live_bets, resp, schema>>

\* the duplicate query
IngestCheckDuplicate(c) ==
    /\ At(c, "ingest", "check_duplicate")
    /\ IF \E b \in live_bets : /\ b.stream_id = calls[c].stream_id
                               /\ b.antebot_bet_id = calls[c].antebot_bet_id
       THEN Return(c, IngestResponse(calls[c].stream_id, FALSE))
       ELSE Goto(c, "store_bet")
    /\ UNCHANGED <<live_streams, live_bets, resp, schema>>

\* a commit with no handler around it: the unique index refuses the bet and
\* the outer handler answers 409
IngestStoreBetUnhandled(c) ==
    /\ At(c, "ingest", "store_bet")
    /\ IF \E b \in live_bets : /\ b.stream_id = calls[c].stream_id
                               /\ b.antebot_bet_id = calls[c].antebot_bet_id
       THEN /\ Return(c, ErrorResponse(409))
            /\ UNCHANGED <<live_streams, live_bets>>
       ELSE IF ~StreamExists(calls[c].stream_id)
       THEN /\ Return(c, ErrorResponse(422))
            /\ UNCHANGED <<live_streams, live_bets>>
       ELSE /\ live_streams' = TouchStream(live_streams, calls[c].stream_id, UtcNow)
            /\ live_bets' = live_bets \cup
                   {[id |-> NewBetId, stream_id |-> calls[c].stream_id,
                     antebot_bet_id |-> calls[c].antebot_bet_id,
                     nonce |-> calls[c].nonce, round_result |-> calls[c].round_result]}
            /\ Return(c, IngestResponse(calls[c].stream_id, TRUE))
    /\ UNCHANGED <<resp, schema>>

\* UPDATE last_seen_at, session.add(new_bet), commit: one write transaction.
\* The unique index on (stream_id, antebot_bet_id) refuses a second bet of the
\* pair: rollback, accepted = false. The foreign key refuses a bet of a
\* deleted stream: the outer handler answers 422.
IngestStoreBet(c) ==
    /\ At(c, "ingest", "store_bet")
    /\ IF \E b \in live_bets : /\ b.stream_id = calls[c].stream_id
                               /\ b.antebot_bet_id = calls[c].antebot_bet_id
       THEN /\ Return(c, IngestResponse(calls[c].stream_id, FALSE))
            /\ UNCHANGED <<live_streams, live_bets>>
       ELSE IF ~StreamExists(calls[c].stream_id)
       THEN /\ Return(c, ErrorResponse(422))
            /\ UNCHANGED <<live_streams, live_bets>>
       ELSE /\ live_streams' = TouchStream(live_streams, calls[c].stream_id, UtcNow)
            /\ live_bets' = live_bets \cup
                   {[id |-> NewBetId, stream_id |-> calls[c].stream_id,
                     antebot_bet_id |-> calls[c].antebot_bet_id,
                     nonce |-> calls[c].nonce, round_result |-> calls[c].round_result]}
            /\ Return(c, IngestResponse(calls[c].stream_id, TRUE))
    /\ UNCHANGED <<resp, schema>>

\* get_stream_metrics up to the result of its stream query
MetricsFindStream(c, stream_id, multipliers, tolerance, bucket_size) ==
    /\ calls[c] = NoCall
    /\ calls' = [calls EXCEPT ![c] =
           [op |-> "metrics",
            pc |-> IF tolerance <= 0 \/ bucket_size <= 0 \/ ~StreamExists(stream_id)
                   THEN "done" ELSE "basic_stats",
            stream_id |-> stream_id, multipliers |-> multipliers,
            tolerance |-> tolerance, bucket_size |-> bucket_size,
            total_bets |-> 0, density_buckets |-> <<>>, multiplier_stats |-> <<>>,
            stream_at_first_read |-> TRUE,
            response |-> IF tolerance <= 0 \/ bucket_size <= 0 THEN ErrorResponse(400)
                         ELSE IF ~StreamExists(stream_id) THEN ErrorResponse(404)
                         ELSE NoResponse]]
    /\ UNCHANGED <<live_streams, live_bets, resp, schema>>

\* basic_stats_query, the first read of the bets. stream_at_first_read records
\* whether the stream was still stored when it ran.
MetricsBasicStats(c) ==
    /\ At(c, "metrics", "basic_stats")
    /\ calls' = [calls EXCEPT ![c].pc = "density",
                              ![c].total_bets = Cardinality(BetsOf(calls[c].stream_id)),
                              ![c].stream_at_first_read = StreamExists(calls[c].stream_id)]
    /\ UNCHANGED <<live_streams, live_bets, resp, schema>>

\* density_query, run when total_bets > 0
MetricsDensity(c) ==
    /\ At(c, "metrics", "density")
    /\ calls' = [calls EXCEPT ![c].pc = "multiplier_stats",
                              ![c].density_buckets =
                                  IF calls[c].total_bets > 0
                                  THEN DensityBuckets(live_bets, calls[c].stream_id,
                                                      calls[c].bucket_size)
                                  ELSE <<>>]
    /\ UNCHANGED <<live_streams, live_bets, resp, schema>>

\* one turn of the loop over the multipliers: its query and its entry
MetricsMultiplierStats(c) ==
    /\ At(c, "metrics", "multiplier_stats")
    /\ Len(calls[c].multiplier_stats) < Len(calls[c].multipliers)
    /\ LET multiplier == calls[c].multipliers[Len(calls[c].multiplier_stats) + 1]
       IN  calls' = [calls EXCEPT ![c].multiplier_stats =
                        Append(@, MultiplierMetrics(multiplier,
                                      MultiplierRows(live_bets, calls[c].stream_id,
                                                     multiplier, calls[c].tolerance,
                                                     "id_asc")))]
    /\ UNCHANGED <<live_streams, live_bets, resp, schema>>

\* return StreamMetrics(...)
MetricsReturn(c) ==
    /\ At(c, "metrics", "multiplier_stats")
    /\ Len(calls[c].multiplier_stats) = Len(calls[c].multipliers)
    /\ Return(c, [kind |-> "metrics", status |-> 200, stream_id |-> calls[c].stream_id,
                  multipliers |-> calls[c].multipliers, tolerance |-> calls[c].tolerance,
                  bucket_size |-> calls[c].bucket_size,
                  total_bets |-> calls[c].total_bets,
                  multiplier_stats |-> calls[c].multiplier_stats,
                  density_buckets |-> calls[c].density_buckets])
    /\ UNCHANGED <<live_streams, live_bets, resp, schema>>

\* delete_stream up to the result of its stream query
DeleteFindStream(c, stream_id) ==
    /\ calls[c] = NoCall
    /\ calls' = [calls EXCEPT ![c] =
           [op |-> "delete",
            pc |-> IF StreamExists(stream_id) THEN "count_bets" ELSE "done",
            stream_id |-> stream_id, bets_to_delete |-> 0, bets_removed |-> 0,
            response |-> IF StreamExists(stream_id) THEN NoResponse
                         ELSE ErrorResponse(404)]]
    /\ UNCHANGED <<live_streams, live_bets, resp, schema>>

\* bet_count_query
DeleteCountBets(c) ==
    /\ At(c, "delete", "count_bets")
    /\ calls' = [calls EXCEPT ![c].pc = "commit",
                              ![c].bets_to_delete = Cardinality(BetsOf(calls[c].stream_id))]
    /\ UNCHANGED <<live_streams, live_bets, resp, schema>>

\* session.delete(stream); commit: the foreign key (ON DELETE CASCADE) takes
\* the bets of the stream with it. A stream that another request has deleted
\* already makes the flush fail, which the handler turns into a 500.
\* bets_removed records how many bets the commit took.
DeleteCommit(c) ==
    /\ At(c, "delete", "commit")
    /\ IF StreamExists(calls[c].stream_id)
       THEN /\ live_streams' = {s \in live_streams : s.id # calls[c].stream_id}
            /\ live_bets' = live_bets \ BetsOf(calls[c].stream_id)
            /\ calls' = [calls EXCEPT
                   ![c].pc = "done",
                   ![c].bets_removed = Cardinality(BetsOf(calls[c].stream_id)),
                   ![c].response = [kind |-> "deleted", status |-> 200,
                                    stream_id |-> calls[c].stream_id,
                                    bets_deleted |-> calls[c].bets_to_delete]]
       ELSE /\ Return(c, ErrorResponse(500))
            /\ UNCHANGED <<live_streams, live_bets>>
    /\ UNCHANGED <<resp, schema>>

\* ingests that overlap
NextIngests ==
    \E c \in Clients :
        \/ \E bet_data \in ConcurrentInputs, antebot_bet_id \in ConcurrentAntebotIds :
              IngestFindStream(c, bet_data[1], antebot_bet_id, bet_data[2], bet_data[3])
        \/ IngestCreateStream(c)
        \/ IngestReselectStream(c)
        \/ IngestCheckDuplicate(c)
        \/ IngestStoreBet(c)
        \/ TakeResponse(c)

SpecIngests == Init /\ [][NextIngests]_vars

\* queries that overlap with ingests and deletions
NextInFlight ==
    \E c \in Clients :
        \/ \E bet_data \in InFlightInputs, antebot_bet_id \in ConcurrentAntebotIds :
              IngestFindStream(c, bet_data[1], antebot_bet_id, bet_data[2], bet_data[3])
        \/ IngestCreateStream(c)
        \/ IngestReselectStream(c)
        \/ IngestCheckDuplicate(c)
        \/ IngestStoreBet(c)
        \/ \E stream_id \in StreamIds, args \in ConcurrentMetricsArgs :
              MetricsFindStream(c, stream_id, args[1], args[2], args[3])
        \/ MetricsBasicStats(c)
        \/ MetricsDensity(c)
        \/ MetricsMultiplierStats(c)
        \/ MetricsReturn(c)
        \/ \E stream_id \in StreamIds : DeleteFindStream(c, stream_id)
        \/ DeleteCountBets(c)
        \/ DeleteCommit(c)
        \/ TakeResponse(c)

SpecInFlight == Init /\ [][NextInFlight]_vars

-----------------------------------------------------------------------------
(* POST /live/ingest of pump-api: one transaction from the stream to the bet *)

\* ingest_bet up to the result of its stream query
PumpIngestFindStream(c, seed, antebot_bet_id, nonce, round_result) ==
    LET found == StreamOfSeed(seed)
    IN  /\ calls[c] = NoCall
        /\ NewBetId + Cardinality({d \in Clients : calls[d] # NoCall /\ calls[d].pc # "done"})
               <= MaxBets
        /\ calls' = [calls EXCEPT ![c] =
               [op |-> "pump_ingest",
                pc |-> IF found = {} THEN "create_stream" ELSE "check_duplicate",
                seed |-> seed, antebot_bet_id |-> antebot_bet_id,
                nonce |-> nonce, round_result |-> round_result,
                stream_id |-> IF found = {} THEN 0 ELSE (CHOOSE s \in found : TRUE).id,
                stored_at_start |->
                    \E s \in found, b \in live_bets :
                        b.stream_id = s.id /\ b.antebot_bet_id = antebot_bet_id,
                lost_race |-> FALSE,
                response |-> NoResponse]]
        /\ UNCHANGED <<live_streams, live_bets, resp, schema>>

\* session.add(stream); flush; duplicate query; session.add(new_bet); commit.
\* The flush opens the write transaction, which no other writer interleaves
\* with, and the duplicate query finds no bet of a stream that is new. When
\* another request has committed a stream of the seed pair, the unique index
\* refuses the flush: the outer handler rolls back and answers 409.
PumpIngestCreateStream(c) ==
    /\ At(c, "pump_ingest", "create_stream")
    /\ IF StreamOfSeed(calls[c].seed) = {}
       THEN /\ live_streams' = live_streams \cup
                   {[id |-> NewStreamId, seed |-> calls[c].seed, last_seen_at |-> UtcNow]}
            /\ live_bets' = live_bets \cup
                   {[id |-> NewBetId, stream_id |-> NewStreamId,
                     antebot_bet_id |-> calls[c].antebot_bet_id,
                     nonce |-> calls[c].nonce, round_result |-> calls[c].round_result]}
            /\ calls' = [calls EXCEPT ![c].pc = "done", ![c].stream_id = NewStreamId,
                                      ![c].response = IngestResponse(NewStreamId, TRUE)]
       ELSE /\ calls' = [calls EXCEPT ![c].pc = "done", ![c].lost_race = TRUE,
                                      ![c].response = ErrorResponse(409)]
            /\ UNCHANGED <<live_streams, live_bets>>
    /\ UNCHANGED <<resp, schema>>

\* the duplicate query for a stream that was stored already
PumpIngestCheckDuplicate(c) ==
    /\ At(c, "pump_ingest", "check_duplicate")
    /\ IF \E b \in live_bets : /\ b.stream_id = calls[c].stream_id
                               /\ b.antebot_bet_id = calls[c].antebot_bet_id
       THEN Return(c, IngestResponse(calls[c].stream_id, FALSE))
       ELSE Goto(c, "store_bet")
    /\ UNCHANGED <<live_streams, live_bets, resp, schema>>

\* stream.last_seen_at = utcnow(); session.add(new_bet); commit, with no
\* handler of its own: a bet the unique index refuses is answered 409 by the
\* outer handler
PumpIngestStoreBet(c) ==
    /\ At(c, "pump_ingest", "store_bet")
    /\ IF \E b \in live_bets : /\ b.stream_id = calls[c].stream_id
                               /\ b.antebot_bet_id = calls[c].antebot_bet_id
       THEN /\ Return(c, ErrorResponse(409))
            /\ UNCHANGED <<live_streams, live_bets>>
       ELSE /\ live_streams' = TouchStream(live_streams, calls[c].stream_id, UtcNow)
            /\ live_bets' = live_bets \cup
                   {[id |-> NewBetId, stream_id |-> calls[c].stream_id,
                     antebot_bet_id |-> calls[c].antebot_bet_id,
                     nonce |-> calls[c].nonce, round_result |-> calls[c].round_result]}
            /\ Return(c, IngestResponse(calls[c].stream_id, TRUE))
    /\ UNCHANGED <<resp, schema>>

NextPumpIngests ==
    \E c \in Clients :
        \/ \E bet_data \in ConcurrentInputs, antebot_bet_id \in ConcurrentAntebotIds :
              PumpIngestFindStream(c, bet_data[1], antebot_bet_id, bet_data[2], bet_data[3])
        \/ PumpIngestCreateStream(c)
        \/ PumpIngestCheckDuplicate(c)
        \/ PumpIngestStoreBet(c)
        \/ TakeResponse(c)

SpecPumpIngests == Init /\ [][NextPumpIngests]_vars

\* the tail endpoint with the ingests of one client at a time
TailArgs == SinceIds \cup {-1}

NextTail ==
    \/ \E bet_data \in IngestInputs, antebot_bet_id \in AntebotIds :
          IngestBet(bet_data[1], antebot_bet_id, bet_data[2], bet_data[3])
    \/ \E stream_id \in StreamIds, since_id \in TailArgs,
          include_distance \in BOOLEAN, tie \in TieOrders :
          TailStreamBets(stream_id, since_id, include_distance, tie)
    \/ AwaitResponse

SpecTail == Init /\ [][NextTail]_vars

-----------------------------------------------------------------------------
(* A client that polls the tail of a stream while bets are ingested *)

\* The polling client keeps the last last_id it was given that was not null
\* (since_id, 0 at first) and the ids of the bets it was given (received).
Poller == "poller"

PolledStream == 1

InitPolling ==
    /\ live_streams = {}
    /\ live_bets = {}
    /\ resp = NoResponse
    /\ calls = [c \in Clients \cup {Poller} |->
                   IF c = Poller
                   THEN [op |-> "poll", pc |-> "idle", stream_id |-> PolledStream,
                         since_id |-> 0, include_distance |-> FALSE,
                         received |-> <<>>, response |-> NoResponse]
                   ELSE NoCall]
    /\ sqlite_master = CreatedTables
    /\ live_bets_backup = {}

\* tail_stream_bets up to the result of its stream query
TailFindStream(p, include_distance) ==
    /\ At(p, "poll", "idle")
    /\ calls' = [calls EXCEPT
           ![p].include_distance = include_distance,
           ![p].pc = IF calls[p].since_id < 0 \/ ~StreamExists(calls[p].stream_id)
                     THEN "answered" ELSE "query",
           ![p].response = IF calls[p].since_id < 0 THEN ErrorResponse(400)
                           ELSE IF ~StreamExists(calls[p].stream_id) THEN ErrorResponse(404)
                           ELSE NoResponse]
    /\ UNCHANGED <<live_streams, live_bets, resp, schema>>

\* tail_query or distance_query, and the response
TailQuery(p) ==
    /\ At(p, "poll", "query")
    /\ calls' = [calls EXCEPT
           ![p].pc = "answered",
           ![p].response = TailResponse(live_bets, calls[p].stream_id, calls[p].since_id,
                                        calls[p].include_distance, "id_asc")]
    /\ UNCHANGED <<live_streams, live_bets, resp, schema>>

\* the client takes the bets and moves since_id to last_id when it is not null
PollReceive(p) ==
    /\ At(p, "poll", "answered")
    /\ LET r == calls[p].response
       IN  calls' = [calls EXCEPT
               ![p].pc = "idle",
               ![p].response = NoResponse,
               ![p].received = IF r.kind = "tail"
                               THEN @ \o [i \in 1 .. Len(r.bets) |-> r.bets[i].id]
                               ELSE @,
               ![p].since_id = IF r.kind = "tail" /\ r.last_id # Null
                               THEN r.last_id[1] ELSE @]
    /\ UNCHANGED <<live_streams, live_bets, resp, schema>>

NextPolling ==
    \/ \E c \in Clients :
          \/ \E bet_data \in InFlightInputs, antebot_bet_id \in ConcurrentAntebotIds :
                IngestFindStream(c, bet_data[1], antebot_bet_id, bet_data[2], bet_data[3])
          \/ IngestCreateStream(c)
          \/ IngestReselectStream(c)
          \/ IngestCheckDuplicate(c)
          \/ IngestStoreBet(c)
          \/ TakeResponse(c)
    \/ \E include_distance \in BOOLEAN : TailFindStream(Poller, include_distance)
    \/ TailQuery(Poller)
    \/ PollReceive(Poller)

SpecPolling == InitPolling /\ [][NextPolling]_vars

-----------------------------------------------------------------------------
(* POST /live/ingest when the database fails *)

\* A statement of ingest_bet raises an SQLAlchemyError that is no
\* IntegrityError (the database is locked by another writer, the disk is full):
\* the handler rolls back what the session has not committed and answers 500.
\* What an earlier commit of the request stored stays.
IngestDatabaseError(c) ==
    /\ \E pc \in {"create_stream", "reselect_stream", "check_duplicate", "store_bet"} :
          At(c, "ingest", pc)
    /\ Return(c, ErrorResponse(500))
    /\ UNCHANGED <<live_streams, live_bets, resp, schema>>

NextIngestFaults ==
    \E c \in Clients :
       \/ \E bet_data \in ConcurrentInputs, antebot_bet_id \in ConcurrentAntebotIds :
             IngestFindStream(c, bet_data[1], antebot_bet_id, bet_data[2], bet_data[3])
       \/ IngestCreateStream(c)
       \/ IngestReselectStream(c)
       \/ IngestCheckDuplicate(c)
       \/ IngestStoreBet(c)
       \/ IngestDatabaseError(c)
       \/ TakeResponse(c)

SpecIngestFaults == Init /\ [][NextIngestFaults]_vars

-----------------------------------------------------------------------------
(* add_bucket_2dp_column *)

\* the process that runs the migration script
Migrator == "c1"

MaxResult == 30

\* round_result of a stored row: nullable in the table the migration reads;
\* every thousandth up to MaxResult, and the value of the test
MigrationResults == {Some(r) : r \in 0 .. MaxResult} \cup {Some(11200123), Null}

MigrationRow(id, round_result) ==
    [id |-> id, stream_id |-> 1, antebot_bet_id |-> id, nonce |-> id,
     round_result |-> round_result]

\* the tables the migration is run on: empty, one row of every result, and
\* two rows of which the second has any result
MigrationTables ==
    {{}} \cup {{MigrationRow(1, r)} : r \in MigrationResults}
         \cup {{MigrationRow(1, Some(2004)), MigrationRow(2, r)} : r \in MigrationResults}

InitMigration ==
    /\ live_streams = {[id |-> 1, seed |-> "s1", last_seen_at |-> 1]}
    /\ live_bets \in MigrationTables
    /\ resp = NoResponse
    /\ calls = [c \in Clients |-> NoCall]
    /\ sqlite_master = CreatedTables
    /\ live_bets_backup = {}

MigrationOutcome(outcome) == [kind |-> "migration", outcome |-> outcome]

\* check_column_exists; engine.begin(). transactional_ddl is whether the
\* driver opens the transaction before the first CREATE or DROP, or only
\* before the INSERT, which leaves every CREATE and DROP committed on its own.
\* rows_at_start and tables_at_start record the database the run started on.
MigrationCheckColumn(c) ==
    /\ calls[c] = NoCall
    /\ \E transactional_ddl \in BOOLEAN :
          calls' = [calls EXCEPT ![c] =
              [op |-> "migration",
               pc |-> IF "bucket_2dp" \in sqlite_master THEN "done" ELSE "backup",
               stream_id |-> 0,
               transactional_ddl |-> transactional_ddl,
               rows_at_start |-> live_bets,
               tables_at_start |-> sqlite_master,
               backup_at_start |-> live_bets_backup,
               response |-> IF "bucket_2dp" \in sqlite_master
                            THEN MigrationOutcome("skipped") ELSE NoResponse]]
    /\ UNCHANGED <<live_streams, live_bets, resp, schema>>

\* the exception leaves the block of engine.begin(): rollback. It restores
\* what the transaction covers.
MigrationRaise(c) ==
    /\ Return(c, MigrationOutcome("failed"))
    /\ IF calls[c].transactional_ddl
       THEN /\ live_bets' = calls[c].rows_at_start
            /\ sqlite_master' = calls[c].tables_at_start
            /\ live_bets_backup' = calls[c].backup_at_start
       ELSE UNCHANGED <<live_bets, schema>>
    /\ UNCHANGED <<live_streams, resp>>

\* CREATE TABLE live_bets_backup AS SELECT * FROM live_bets
MigrationBackup(c) ==
    /\ At(c, "migration", "backup")
    /\ IF "live_bets_backup" \in sqlite_master
       THEN MigrationRaise(c)
       ELSE /\ sqlite_master' = sqlite_master \cup {"live_bets_backup"}
            /\ live_bets_backup' = live_bets
            /\ Goto(c, "drop_table")
            /\ UNCHANGED <<live_streams, live_bets, resp>>

\* DROP TABLE live_bets
MigrationDropTable(c) ==
    /\ At(c, "migration", "drop_table")
    /\ sqlite_master' = sqlite_master \ {"live_bets"}
    /\ live_bets' = {}
    /\ Goto(c, "create_table")
    /\ UNCHANGED <<live_streams, resp, live_bets_backup>>

\* CREATE TABLE live_bets (... round_result REAL NOT NULL ...,
\* bucket_2dp REAL GENERATED ALWAYS AS (ROUND(round_result, 2)) STORED, ...)
MigrationCreateTable(c) ==
    /\ At(c, "migration", "create_table")
    /\ sqlite_master' = sqlite_master \cup {"live_bets", "bucket_2dp"}
    /\ Goto(c, "copy")
    /\ UNCHANGED <<live_streams, live_bets, resp, live_bets_backup>>

\* a row of the new table: the copied columns and the generated one
MigratedRow(row) ==
    [id |-> row.id, stream_id |-> row.stream_id, antebot_bet_id |-> row.antebot_bet_id,
     nonce |-> row.nonce, round_result |-> row.round_result,
     bucket_2dp |-> Bucket2dp(row.round_result[1])]

\* INSERT INTO live_bets (...) SELECT ... FROM live_bets_backup: the NOT NULL
\* constraint of round_result refuses a row without one, and the statement
\* inserts no row at all
MigrationCopy(c) ==
    /\ At(c, "migration", "copy")
    /\ IF \E row \in live_bets_backup : row.round_result = Null
       THEN MigrationRaise(c)
       ELSE /\ live_bets' = {MigratedRow(row) : row \in live_bets_backup}
            /\ Goto(c, "drop_backup")
            /\ UNCHANGED <<live_streams, resp, schema>>

\* DROP TABLE live_bets_backup, and the commit at the end of the block
MigrationDropBackup(c) ==
    /\ At(c, "migration", "drop_backup")
    /\ sqlite_master' = sqlite_master \ {"live_bets_backup"}
    /\ live_bets_backup' = {}
    /\ Return(c, MigrationOutcome("added"))
    /\ UNCHANGED <<live_streams, live_bets, resp>>

\* the script has ended; it can be run again
MigrationEnds(c) ==
    /\ At(c, "migration", "done")
    /\ calls' = [calls EXCEPT ![c] = NoCall]
    /\ UNCHANGED <<live_streams, live_bets, resp, schema>>

NextMigration ==
    \/ MigrationCheckColumn(Migrator)
    \/ MigrationBackup(Migrator)
    \/ MigrationDropTable(Migrator)
    \/ MigrationCreateTable(Migrator)
    \/ MigrationCopy(Migrator)
    \/ MigrationDropBackup(Migrator)
    \/ MigrationEnds(Migrator)

SpecMigration == InitMigration /\ [][NextMigration]_vars

-----------------------------------------------------------------------------
(* Claims *)

\* a request whose arguments pass validation
ValidTolerances == {t \in Tolerances : t > 0}

\* the entries of a metrics response, with the rows each was computed from
IsMetrics == resp.kind = "metrics"

EntryIndexes == IF IsMetrics THEN 1 .. Len(resp.multiplier_stats) ELSE {}

EntryMatches(i) ==
    MultiplierMatches(live_bets, resp.stream_id, resp.multipliers[i], resp.tolerance)

\* the nonces of a set of bets in ascending order, one per bet
RECURSIVE AscendingNonces(_)
AscendingNonces(bets) ==
    IF bets = {} THEN <<>>
    ELSE LET least == CHOOSE b \in bets : \A o \in bets : b.nonce <= o.nonce
         IN <<least.nonce>> \o AscendingNonces(bets \ {least})

\* C1: for every non-empty set of events of one stream that a multiplier
\* selects, the rows get_stream_metrics computes its entry from list them in
\* ascending nonce order, the first row has no gap (null, not 0) and every
\* later row's gap is its nonce minus the nonce of the row before it (0 for
\* equal nonces), whatever order the engine gives rows of equal nonce; the gap
\* list the statistics are computed from is exactly those differences.
C1_GapsAreConsecutiveDifferences ==
    IsMetrics =>
        \A i \in EntryIndexes, tie \in TieOrders :
            LET nonces == AscendingNonces(EntryMatches(i))
                rows == MultiplierRows(live_bets, resp.stream_id, resp.multipliers[i],
                                       resp.tolerance, tie)
            IN  /\ Len(rows) = Cardinality(EntryMatches(i))
                /\ \A k \in 1 .. Len(rows) :
                      /\ rows[k].nonce = nonces[k]
                      /\ k = 1 => rows[k].gap = Null
                      /\ k > 1 => rows[k].gap = Some(nonces[k] - nonces[k - 1])
                /\ GapsOf(rows) = [k \in 1 .. Len(rows) - 1 |-> nonces[k + 1] - nonces[k]]
                /\ resp.multiplier_stats[i] = MultiplierMetrics(resp.multipliers[i], rows)

\* a metrics response for a multiplier with three hits, two of them on the
\* same nonce and one late arrival (a smaller nonce with a larger id)
C1_Witness ==
    /\ IsMetrics
    /\ \E i \in EntryIndexes :
          /\ resp.multiplier_stats[i].count = 3
          /\ \E a, b \in EntryMatches(i) : a # b /\ a.nonce = b.nonce
          /\ \E a, b \in EntryMatches(i) : a.nonce < b.nonce /\ a.id > b.id

EntryHasNoGaps(i) == Cardinality(EntryMatches(i)) <= 1

\* C4 (as claimed): for every bucket whose gap sequence is empty the statistics
\* are count = 0 with mean, std_dev, max and p90 all null (never 0).
C4_EmptyGapsGiveNullStatistics ==
    IsMetrics =>
        \A i \in EntryIndexes :
            EntryHasNoGaps(i) =>
                LET e == resp.multiplier_stats[i]
                IN  /\ e.count = 0
                    /\ e.mean_gap = Null
                    /\ e.std_gap_sq = Null
                    /\ e.max_gap = Null
                    /\ e.p90_gap = Null

\* C9 (as claimed): for every bucket with zero or exactly one occurrence the
\* observed ETA is null (not 0 and not the last nonce).
C9_NoEtaBelowTwoOccurrences ==
    IsMetrics =>
        \A i \in EntryIndexes :
            EntryHasNoGaps(i) => resp.multiplier_stats[i].eta_observed = Null

\* the gaps of entry i, from the stored nonces alone
EntryGaps(i) ==
    LET nonces == AscendingNonces(EntryMatches(i))
    IN  [j \in 1 .. Len(nonces) - 1 |-> nonces[j + 1] - nonces[j]]

EntryNonces(i) == {b.nonce : b \in EntryMatches(i)}

\* C5 (as claimed): for every bucket with a non-empty gap sequence the
\* statistics report count = the number of gaps (hits minus one), mean = the
\* sum of the gaps over count, and max = the largest gap.
C5_CountIsTheNumberOfGaps ==
    IsMetrics =>
        \A i \in EntryIndexes :
            ~EntryHasNoGaps(i) =>
                LET e == resp.multiplier_stats[i]
                    gaps == EntryGaps(i)
                IN  /\ e.count = Len(gaps)
                    /\ e.mean_gap # Null
                    /\ e.mean_gap[1].num * e.count = e.mean_gap[1].den * SeqSum(gaps)
                    /\ e.max_gap = Some(SeqMax(gaps))

\* C8: for every multiplier with at least two occurrences the observed ETA is
\* the largest nonce of its occurrences plus the mean gap: with k occurrences
\* between the smallest nonce lo and the largest hi the gaps sum to hi - lo,
\* so the ETA is hi + (hi - lo) / (k - 1), and it is last_nonce + mean_gap of
\* the same entry.
C8_EtaIsLastNoncePlusMeanGap ==
    IsMetrics =>
        \A i \in EntryIndexes :
            Cardinality(EntryMatches(i)) >= 2 =>
                LET e == resp.multiplier_stats[i]
                    k == Cardinality(EntryMatches(i))
                    hi == SetMax(EntryNonces(i))
                    lo == -SetMax({-n : n \in EntryNonces(i)})
                IN  /\ e.last_nonce = hi
                    /\ e.eta_observed # Null
                    /\ e.eta_observed[1].num * (k - 1)
                           = e.eta_observed[1].den * (hi * (k - 1) + (hi - lo))
                    /\ e.eta_observed[1] = RatAdd(Rat(e.last_nonce, 1), e.mean_gap[1])

\* three occurrences with a fractional mean gap, the largest nonce stored
\* before a smaller one
C8_Witness ==
    /\ IsMetrics
    /\ \E i \in EntryIndexes :
          /\ Cardinality(EntryMatches(i)) = 3
          /\ resp.multiplier_stats[i].eta_observed[1].den = 2
          /\ \E a, b \in EntryMatches(i) :
                /\ a.nonce = SetMax(EntryNonces(i))
                /\ a.id < b.id /\ b.nonce < a.nonce

\* the number of gaps below v, and of gaps at most v
GapsBelow(gaps, v) == Cardinality({j \in DOMAIN gaps : gaps[j] < v})

GapsUpTo(gaps, v) == Cardinality({j \in DOMAIN gaps : gaps[j] <= v})

\* C6: for every non-empty gap sequence of n gaps, p90 is the element at the
\* 0-based index min(floor(0.9 * n), n - 1) of the gaps sorted ascending: a gap
\* value with at most that many gaps below it and more than that many gaps not
\* above it.
C6_P90IsTheSortedGapAtNineTenths ==
    IsMetrics =>
        \A i \in EntryIndexes :
            ~EntryHasNoGaps(i) =>
                LET e == resp.multiplier_stats[i]
                    gaps == EntryGaps(i)
                    n == Len(gaps)
                    floor90 == (9 * n) \div 10
                    idx == IF floor90 < n - 1 THEN floor90 ELSE n - 1
                IN  /\ e.p90_gap # Null
                    /\ e.p90_gap[1].den = 1
                    /\ \E j \in DOMAIN gaps : gaps[j] = e.p90_gap[1].num
                    /\ GapsBelow(gaps, e.p90_gap[1].num) <= idx
                    /\ idx < GapsUpTo(gaps, e.p90_gap[1].num)

\* enough gaps for index floor(0.9 * n) to fall short of the last one, and a
\* single largest gap, so that p90 is below the maximum
C6_Witness ==
    /\ IsMetrics
    /\ \E i \in EntryIndexes :
          /\ Len(EntryGaps(i)) >= 11
          /\ resp.multiplier_stats[i].p90_gap # Null
          /\ resp.multiplier_stats[i].p90_gap[1].num < resp.multiplier_stats[i].max_gap[1]

\* C7: for every non-empty gap sequence std_dev is the population standard
\* deviation: its square is the mean of the squared gaps minus the square of
\* the mean gap (the squared deviations over n, not n - 1), and a single gap
\* gives 0.
C7_StdDevIsThePopulationOne ==
    IsMetrics =>
        \A i \in EntryIndexes :
            ~EntryHasNoGaps(i) =>
                LET e == resp.multiplier_stats[i]
                    gaps == EntryGaps(i)
                    n == Len(gaps)
                    s == SeqSum(gaps)
                    s2 == SeqSum([j \in 1 .. n |-> gaps[j] * gaps[j]])
                IN  /\ e.std_gap_sq # Null
                    /\ e.std_gap_sq[1].num * n * n = e.std_gap_sq[1].den * (n * s2 - s * s)
                    /\ n = 1 => e.std_gap_sq[1] = Rat(0, 1)

\* a response over gaps that differ from each other, where the population and
\* the sample deviation differ
C7_Witness ==
    /\ IsMetrics
    /\ \E i \in EntryIndexes :
          /\ Len(EntryGaps(i)) >= 3
          /\ resp.multiplier_stats[i].std_gap_sq # Null
          /\ resp.multiplier_stats[i].std_gap_sq[1].num > 0

\* The same bets stored by another ingest order: ascending nonce, bets of
\* equal nonce in descending order of their Antebot id.  Only the row ids,
\* which follow the ingest order, change.
IngestedBefore(a, b) ==
    \/ a.nonce < b.nonce
    \/ a.nonce = b.nonce /\ a.stream_id < b.stream_id
    \/ a.nonce = b.nonce /\ a.stream_id = b.stream_id /\ a.antebot_bet_id > b.antebot_bet_id

AscendingReingest(bets) ==
    {[b EXCEPT !.id = 1 + Cardinality({o \in bets : IngestedBefore(o, b)})] : b \in bets}

IsDistanceList == resp.kind = "bets" /\ resp.include_distance

\* the answer to the request resp answers, had the bets been ingested in
\* ascending order
ReingestedList(tie) ==
    BetListResponse(AscendingReingest(live_bets), resp.stream_id, resp.limit, resp.offset,
                    resp.min_multiplier, resp.order, TRUE, tie)

\* no other bet of the stream has both the round_result and the nonce of row
AloneOnItsNonce(row) ==
    \A b \in BetsOf(resp.stream_id) :
        b.round_result = row.round_result /\ b.nonce = row.nonce
            => b.antebot_bet_id = row.antebot_bet_id

\* the (nonce, gap) pairs a list response shows for the bets of one
\* round_result, in the order of its rows
NonceGapPairs(r, round_result) ==
    LET InPartition(row) == row.round_result = round_result
        rows == SelectSeq(r.bets, InPartition)
    IN  [k \in 1 .. Len(rows) |-> <<rows[k].nonce, rows[k].distance_prev_opt>>]

\* C2 (as claimed): whatever the ingest order, every query returns the same
\* gap for each bet as when the same events are ingested in ascending nonce
\* order.
C2_SameGapPerBetUnderAnyIngestOrder ==
    IsDistanceList =>
        \A tie \in TieOrders :
            \A k \in 1 .. Len(resp.bets), k2 \in 1 .. Len(ReingestedList(tie).bets) :
                resp.bets[k].antebot_bet_id = ReingestedList(tie).bets[k2].antebot_bet_id
                    => resp.bets[k].distance_prev_opt
                           = ReingestedList(tie).bets[k2].distance_prev_opt

\* C2 (amended): whatever the ingest order, (1) every bet that no other bet of
\* its stream and round_result shares its nonce with gets the same gap as when
\* the same events are ingested in ascending nonce order, (2) a list of the
\* whole stream in nonce order shows, for the bets of each round_result, the
\* same sequence of (nonce, gap) pairs, and (3) the statistics get_stream_metrics
\* computes for a multiplier are the same.
C2_GapsDependOnTheStoredSet ==
    /\ IsDistanceList =>
          \A tie \in TieOrders :
              LET other == ReingestedList(tie)
              IN  /\ \A k \in 1 .. Len(resp.bets), k2 \in 1 .. Len(other.bets) :
                        /\ resp.bets[k].antebot_bet_id = other.bets[k2].antebot_bet_id
                        /\ AloneOnItsNonce(resp.bets[k])
                        => resp.bets[k].distance_prev_opt = other.bets[k2].distance_prev_opt
                  /\ resp.total = other.total
                  /\ (resp.order = "nonce_asc" /\ Len(resp.bets) = resp.total)
                        => \A round_result \in Results :
                               NonceGapPairs(resp, round_result)
                                   = NonceGapPairs(other, round_result)
    /\ Idle =>
          \A stream_id \in StreamIds, multiplier \in Multipliers,
             tolerance \in ValidTolerances, tie \in TieOrders :
              MultiplierMetrics(multiplier,
                  MultiplierRows(live_bets, stream_id, multiplier, tolerance, "id_asc"))
              = MultiplierMetrics(multiplier,
                    MultiplierRows(AscendingReingest(live_bets), stream_id, multiplier,
                                   tolerance, tie))

\* a list with distances of a stream that holds a late arrival (a smaller nonce
\* stored after a larger one) and two bets on one nonce whose gaps the ingest
\* order swaps
C2_Witness ==
    /\ IsDistanceList
    /\ Len(resp.bets) = 3
    /\ \E a, b \in BetsOf(resp.stream_id) : a.nonce < b.nonce /\ a.id > b.id
    /\ \E k \in 1 .. Len(resp.bets) : AloneOnItsNonce(resp.bets[k])
    /\ \E tie \in TieOrders :
          \E k \in 1 .. Len(resp.bets), k2 \in 1 .. Len(ReingestedList(tie).bets) :
              /\ resp.bets[k].antebot_bet_id = ReingestedList(tie).bets[k2].antebot_bet_id
              /\ resp.bets[k].distance_prev_opt # ReingestedList(tie).bets[k2].distance_prev_opt

IsBatch == resp.kind = "hits_batch"

\* the answer to a single-bucket query with the arguments of the batch resp
SingleOfBatch(bucket) ==
    HitsResponse(live_bets, resp.stream_id, bucket, resp.tolerance,
                 resp.after_nonce, resp.before_nonce, resp.limit_per_bucket)

\* the hits of a single-bucket query without its limit
SingleRowsOfBatch(bucket) ==
    HitRows(live_bets, resp.stream_id, bucket, resp.tolerance,
            resp.after_nonce, resp.before_nonce)

EventsInRange(stream_id, bucket, tolerance, after_nonce, before_nonce) ==
    {b \in live_bets :
        /\ b.stream_id = stream_id
        /\ Abs(b.round_result - bucket) <= tolerance
        /\ after_nonce # Null => after_nonce[1] < b.nonce
        /\ before_nonce # Null => b.nonce < before_nonce[1]}

\* C11: in every successful batch response hits_by_bucket and stats_by_bucket
\* have the same key set, with one key for every requested bucket value; a
\* bucket without a matching event has an empty hit list and a statistics
\* result of count 0.
C11_BatchKeysAreTheRequestedBuckets ==
    IsBatch =>
        /\ DOMAIN resp.hits_by_bucket = DOMAIN resp.stats_by_bucket
        /\ DOMAIN resp.hits_by_bucket = {resp.buckets[i] : i \in 1 .. Len(resp.buckets)}
        /\ \A bucket \in DOMAIN resp.hits_by_bucket :
              EventsInRange(resp.stream_id, bucket, resp.tolerance,
                            resp.after_nonce, resp.before_nonce) = {}
                  => /\ resp.hits_by_bucket[bucket] = <<>>
                     /\ resp.stats_by_bucket[bucket].count = 0
                     /\ resp.stats_by_bucket[bucket].mean = Null

\* a batch over two buckets, one with hits and one without
C11_Witness ==
    /\ IsBatch
    /\ \E b1, b2 \in DOMAIN resp.hits_by_bucket :
          /\ resp.hits_by_bucket[b1] # <<>>
          /\ resp.hits_by_bucket[b2] = <<>>
          /\ resp.stats_by_bucket[b2].count = 0

IsHits == resp.kind = "hits"

IsBetList == resp.kind = "bets"

\* the bets a listing selects, from the stored bets alone
ListedBets == {b \in live_bets :
                  /\ b.stream_id = resp.stream_id
                  /\ resp.min_multiplier # Null => b.round_result >= resp.min_multiplier[1]}

Min(a, b) == IF a < b THEN a ELSE b

\* the ids of a set of bets in descending order
RECURSIVE DescendingIds(_)
DescendingIds(bets) ==
    IF bets = {} THEN <<>>
    ELSE LET newest == CHOOSE b \in bets : \A o \in bets : o.id <= b.id
         IN <<newest.id>> \o DescendingIds(bets \ {newest})

ValidPages == {<<3, 0>>, <<2, 0>>, <<1, 1>>, <<1, 0>>, <<1, 2>>}

\* the nonces below the nonce of row among the stored bets of its stream and
\* round_result
EarlierNonces(row) ==
    {b.nonce : b \in {o \in BetsOf(resp.stream_id) :
                         o.round_result = row.round_result /\ o.nonce < row.nonce}}

\* C16: the gap attached to a bet is computed over the nonce-ascending
\* sequence of its whole partition before any display ordering or truncation:
\* with the engine's order of equal nonces held fixed, the distance_prev_opt
\* list_stream_bets returns for a bet is the same under every order, limit and
\* offset under which the bet is returned, and for a bet alone on its nonce it
\* is the distance to the nearest smaller nonce stored in its partition, on
\* the page or not.
C16_DistanceIgnoresOrderAndPage ==
    IsDistanceList =>
        /\ \E tie \in TieOrders :
              /\ resp = BetListResponse(live_bets, resp.stream_id, resp.limit, resp.offset,
                                        resp.min_multiplier, resp.order, TRUE, tie)
              /\ \A order \in Orders, page \in ValidPages :
                    LET other == BetListResponse(live_bets, resp.stream_id, page[1], page[2],
                                                 resp.min_multiplier, order, TRUE, tie)
                    IN  \A k \in 1 .. Len(resp.bets), k2 \in 1 .. Len(other.bets) :
                            resp.bets[k].id = other.bets[k2].id
                                => resp.bets[k].distance_prev_opt = other.bets[k2].distance_prev_opt
        /\ \A k \in 1 .. Len(resp.bets) :
              AloneOnItsNonce(resp.bets[k]) =>
                  resp.bets[k].distance_prev_opt
                      = IF EarlierNonces(resp.bets[k]) = {} THEN Null
                        ELSE Some(resp.bets[k].nonce - SetMax(EarlierNonces(resp.bets[k])))

\* a page in order id_desc that holds one bet, whose gap is to a bet that
\* the page does not show and that was stored after it
C16_Witness ==
    /\ IsDistanceList /\ resp.order = "id_desc"
    /\ Len(resp.bets) = 1 /\ resp.total = 3
    /\ resp.bets[1].distance_prev_opt # Null
    /\ \E b \in ListedBets :
          /\ b.id > resp.bets[1].id
          /\ b.round_result = resp.bets[1].round_result
          /\ b.nonce = resp.bets[1].nonce - resp.bets[1].distance_prev_opt[1]

\* the sum of the counts of a histogram over the keys in S
RECURSIVE CountSum(_, _)
CountSum(histogram, S) ==
    IF S = {} THEN 0
    ELSE LET k == CHOOSE x \in S : TRUE
         IN histogram[k] + CountSum(histogram, S \ {k})

\* the stored events of the stream in window k of width w
EventsInWindow(k, w) ==
    {b \in BetsOf(resp.stream_id) : k * w <= b.nonce /\ b.nonce < (k + 1) * w}

\* C17: for every stream and window size w > 0 the density histogram maps
\* window index k to the number of events of the stream, of any result, with
\* k*w <= nonce < (k+1)*w; it has no key whose count is 0, every event falls
\* under one of its keys, and its counts sum to the number of events of the
\* stream.
C17_DensityCountsEveryEventOnce ==
    IsMetrics =>
        LET histogram == resp.density_buckets
            w == resp.bucket_size
        IN  /\ \A k \in DOMAIN histogram :
                  /\ histogram[k] = Cardinality(EventsInWindow(k, w))
                  /\ histogram[k] > 0
            /\ \A b \in BetsOf(resp.stream_id) :
                  \E k \in DOMAIN histogram : b \in EventsInWindow(k, w)
            /\ CountSum(histogram, DOMAIN histogram) = Cardinality(BetsOf(resp.stream_id))
            /\ resp.total_bets = Cardinality(BetsOf(resp.stream_id))

\* a histogram with an omitted empty window below a filled one, over events
\* of different results
C17_Witness ==
    /\ IsMetrics
    /\ DOMAIN resp.density_buckets = {1}
    /\ resp.density_buckets[1] >= 2
    /\ \E a, b \in BetsOf(resp.stream_id) : a.round_result # b.round_result

\* the arguments each handler rejects
InvalidMetricsArgs(args) == args[1] <= 0 \/ args[2] <= 0

InvalidListArgs(args) ==
    \/ args[1][1] < 1 \/ args[1][1] > 1000
    \/ args[1][2] < 0
    \/ args[2] # Null /\ args[2][1] < 0

InvalidHitsArgs(args) ==
    \/ args[1] <= 0
    \/ args[2] # Null /\ args[3] # Null /\ args[3][1] <= args[2][1]
    \/ args[4] < 1 \/ args[4] > 1000

InvalidBuckets(buckets) ==
    \/ buckets = <<>>
    \/ Len(buckets) > 20
    \/ \E i \in 1 .. Len(buckets) : buckets[i] < 0

TooManyBuckets == [i \in 1 .. 21 |-> 2000]

InvalidArgument(response) == response.kind = "error" /\ response.status \in {400, 422}

\* C12: argument validation precedes the stream lookup: every metrics, bets
\* listing, hits and hits/batch request that carries an invalid argument
\* (tolerance <= 0, bucket_size <= 0, limit outside its bounds, negative offset,
\* min_multiplier or bucket, before_nonce <= after_nonce, no bucket or more than
\* 20) is answered with 400 or 422, for a stream that exists and for one that
\* does not, never with 404; a valid request for a stream that does not exist
\* is answered with 404. The client sends a request when it has taken the
\* response of the one before.
C12_ValidationPrecedesTheLookup ==
    Idle => \A stream_id \in StreamIds :
        /\ \A multipliers \in MultiplierLists, args \in MetricsArgs :
              LET answer == MetricsResult(stream_id, multipliers, args[1], args[2])
              IN  /\ InvalidMetricsArgs(args) => InvalidArgument(answer)
                  /\ (~InvalidMetricsArgs(args) /\ ~StreamExists(stream_id))
                         => answer = ErrorResponse(404)
        /\ \A args \in ListArgs, order \in Orders, include_distance \in BOOLEAN :
              LET answer == BetListResult(stream_id, args[1][1], args[1][2], args[2],
                                          order, include_distance, "id_asc")
              IN  /\ InvalidListArgs(args) => InvalidArgument(answer)
                  /\ (~InvalidListArgs(args) /\ ~StreamExists(stream_id))
                         => answer = ErrorResponse(404)
        /\ \A bucket \in HitBuckets, args \in HitsArgs :
              LET answer == HitsResult(stream_id, bucket, args[1], args[2], args[3], args[4])
              IN  /\ (bucket < 0 \/ InvalidHitsArgs(args)) => InvalidArgument(answer)
                  /\ (bucket >= 0 /\ ~InvalidHitsArgs(args) /\ ~StreamExists(stream_id))
                         => answer = ErrorResponse(404)
        /\ \A buckets \in BucketLists \cup {TooManyBuckets}, args \in HitsArgs :
              LET answer == BatchResult(stream_id, buckets, args[1], args[2], args[3], args[4])
              IN  /\ (InvalidBuckets(buckets) \/ InvalidHitsArgs(args)) => InvalidArgument(answer)
                  /\ (~InvalidBuckets(buckets) /\ ~InvalidHitsArgs(args) /\ ~StreamExists(stream_id))
                         => answer = ErrorResponse(404)

\* an invalid-argument answer to a metrics request while no stream exists at
\* all, so that any lookup would have failed
C12_Witness ==
    /\ live_streams = {}
    /\ resp = ErrorResponse(400)

\* the bet of a request is stored already
AlreadyStored(seed, antebot_bet_id) ==
    \E s \in StreamOfSeed(seed), b \in live_bets :
        b.stream_id = s.id /\ b.antebot_bet_id = antebot_bet_id

\* C19: ingest is idempotent per bet: an ingest of a bet whose (seed pair,
\* Antebot bet id) is stored already answers 200 with accepted = false and
\* leaves the stored bets and every stream, its last_seen_at included,
\* unchanged; accepted = true is answered exactly when the request stored a
\* new bet, and then exactly that bet, on the stream of its seed pair, was added.
\* (A step is looked at as the step of a request when it answers an ingest,
\* stores no bet but that of the request, and is a step of IngestBet for it.)
C19_IngestIsIdempotentPerBet ==
    [][\A bet_data \in IngestInputs, antebot_bet_id \in AntebotIds :
          (/\ resp'.kind = "ingest"
           /\ \A b \in live_bets' \ live_bets :
                 b.antebot_bet_id = antebot_bet_id /\ b.nonce = bet_data[2]
           /\ IngestBet(bet_data[1], antebot_bet_id, bet_data[2], bet_data[3])) =>
             /\ resp'.status = 200
             /\ AlreadyStored(bet_data[1], antebot_bet_id) =>
                   /\ resp'.accepted = FALSE
                   /\ live_bets' = live_bets
                   /\ live_streams' = live_streams
             /\ resp'.accepted <=> live_bets' # live_bets
             /\ resp'.accepted =>
                   \E b \in live_bets' \ live_bets :
                      /\ live_bets' = live_bets \cup {b}
                      /\ b.stream_id = resp'.streamId
                      /\ b.antebot_bet_id = antebot_bet_id
                      /\ b.nonce = bet_data[2] /\ b.round_result = bet_data[3]
                      /\ \E s \in live_streams' : s.id = b.stream_id /\ s.seed = bet_data[1]
      ]_vars

\* a duplicate was just answered: the stream holds a bet stored later than the
\* first one, and its last_seen_at is still the time of that later write
C19_Witness ==
    /\ resp.kind = "ingest" /\ ~resp.accepted
    /\ \E s \in live_streams :
          /\ s.id = resp.streamId
          /\ Cardinality(BetsOf(s.id)) >= 2
          /\ s.last_seen_at = SetMax({b.id : b \in BetsOf(s.id)})
          /\ s.last_seen_at < UtcNow

\* the ingests that have their response
AnsweredIngests == {c \in Clients : At(c, "ingest", "done")}

\* two answered ingests of one bet that was not stored when either arrived:
\* the earlier one had not committed when the later one arrived
SameBetInFlight(c, d) ==
    /\ c # d
    /\ calls[c].seed = calls[d].seed
    /\ calls[c].antebot_bet_id = calls[d].antebot_bet_id
    /\ ~calls[c].stored_at_start
    /\ ~calls[d].stored_at_start

\* C20: after any interleaving of ingests that overlap, no stream holds two
\* bets of one antebot_bet_id (and no seed pair two streams); every ingest is
\* answered 200, and of two overlapping ingests of the same bet exactly one is
\* answered accepted = true, the other accepted = false; the bet of an
\* accepted ingest is stored.
C20_OverlappingIngestsStoreABetOnce ==
    /\ \A a, b \in live_bets :
          (a.stream_id = b.stream_id /\ a.antebot_bet_id = b.antebot_bet_id) => a = b
    /\ \A s, t \in live_streams : s.seed = t.seed => s = t
    /\ \A c \in AnsweredIngests :
          /\ calls[c].response.kind = "ingest"
          /\ calls[c].response.status = 200
          /\ \E b \in live_bets : /\ b.stream_id = calls[c].response.streamId
                                  /\ b.antebot_bet_id = calls[c].antebot_bet_id
          /\ calls[c].stored_at_start => ~calls[c].response.accepted
    /\ \A c, d \in AnsweredIngests :
          SameBetInFlight(c, d) => calls[c].response.accepted # calls[d].response.accepted

\* two overlapping ingests of one bet, for a seed pair that had no stream, are
\* both answered
C20_Witness ==
    /\ \E c, d \in AnsweredIngests :
          /\ SameBetInFlight(c, d)
          /\ calls[c].response.accepted
          /\ ~calls[d].response.accepted
    /\ Cardinality(live_bets) = 1

\* the metrics queries that have their response
AnsweredQueries == {c \in Clients : At(c, "metrics", "done")}

\* C13: a metrics query whose stream was deleted after its existence check and
\* before its first read of the bets is answered 404.
C13_DeletedStreamFailsTheQuery ==
    \A c \in AnsweredQueries :
        ~calls[c].stream_at_first_read => calls[c].response = ErrorResponse(404)

\* C18: in every metrics response, total_bets is the sum of the
\* density_buckets counts and no per-multiplier count exceeds total_bets, also
\* when ingests commit while the query runs.
C18_MetricsAreOneSnapshot ==
    \A c \in AnsweredQueries :
        calls[c].response.kind = "metrics" =>
            LET r == calls[c].response
            IN  /\ r.total_bets = CountSum(r.density_buckets, DOMAIN r.density_buckets)
                /\ \A i \in 1 .. Len(r.multiplier_stats) :
                      r.multiplier_stats[i].count <= r.total_bets

\* the ingests of either handler that have their response
AnsweredPumpIngests == {c \in Clients : At(c, "pump_ingest", "done")}

\* the bet of request c is stored in the stream of its seed pair
BetStoredFor(c) ==
    \E s \in StreamOfSeed(calls[c].seed), b \in live_bets :
        /\ b.stream_id = s.id
        /\ b.antebot_bet_id = calls[c].antebot_bet_id

\* C21: after any interleaving of ingests there is at most one stream per seed
\* pair, and an ingest that lost the race to create the stream of a new seed
\* pair has its bet stored in the winner's stream and is answered
\* accepted = true (pump-api handler).
C21_RaceLoserStoresItsBet ==
    /\ \A s, t \in live_streams : s.seed = t.seed => s = t
    /\ \A c \in AnsweredPumpIngests :
          calls[c].lost_race =>
             /\ calls[c].response.kind = "ingest"
             /\ calls[c].response.accepted
             /\ BetStoredFor(c)

\* The same for the backend handler, which re-selects the stream after the
\* refused commit: the loser is answered 200 for the winner's stream, with its
\* bet stored there; accepted = false tells that another request stored the
\* same bet first.
BackendRaceLoserStoresItsBet ==
    /\ \A s, t \in live_streams : s.seed = t.seed => s = t
    /\ \A c \in AnsweredIngests :
          calls[c].lost_race =>
             /\ calls[c].response.kind = "ingest"
             /\ \E s \in StreamOfSeed(calls[c].seed) : s.id = calls[c].response.streamId
             /\ BetStoredFor(c)
             /\ calls[c].response.accepted =>
                   \E b \in live_bets :
                      /\ b.stream_id = calls[c].response.streamId
                      /\ b.antebot_bet_id = calls[c].antebot_bet_id
                      /\ b.nonce = calls[c].nonce
                      /\ b.round_result = calls[c].round_result

\* a loser of the backend handler that was answered accepted = true
BackendRaceLoserAccepted ==
    \E c \in AnsweredIngests : calls[c].lost_race /\ calls[c].response.accepted

\* the deletions that were answered deleted = true
AnsweredDeletions ==
    {c \in Clients : At(c, "delete", "done") /\ calls[c].response.kind = "deleted"}

\* C22: after delete_stream has answered deleted = true for a stream, no bet of
\* that stream is stored, bets_deleted is the number of bets that were removed,
\* and a later bets listing or deletion for that stream id is answered 404.
C22_DeletionRemovesWhatItReports ==
    \A c \in AnsweredDeletions :
        /\ BetsOf(calls[c].stream_id) = {}
        /\ calls[c].response.bets_deleted = calls[c].bets_removed
        /\ ~StreamExists(calls[c].stream_id)
        /\ BetListResult(calls[c].stream_id, 3, 0, Null, "nonce_asc", FALSE, "id_asc")
               = ErrorResponse(404)

\* the ids of a set of bets
IdsOf(bets) == {b.id : b \in bets}

\* the ids a tail response gives, in its order
TailIds(response) == [i \in 1 .. Len(response.bets) |-> response.bets[i].id]

StrictlyAscending(ids) == \A i \in 1 .. Len(ids) - 1 : ids[i] < ids[i + 1]

\* C23: tail_stream_bets returns exactly the bets of the stream with
\* id > since_id in ascending id order, with last_id the largest returned id
\* (null when nothing is returned); and a client that starts at since_id = 0
\* and polls with the last last_id that was not null has been given, at every
\* moment, each bet of the stream up to its since_id exactly once and no other,
\* whatever ingests run between and during its polls.
C23_PollingGivesEveryBetOnce ==
    /\ \A stream_id \in StreamIds, since_id \in SinceIds, include_distance \in BOOLEAN :
          StreamExists(stream_id) =>
             LET r == TailResult(stream_id, since_id, include_distance, "id_asc")
                 ids == TailIds(r)
             IN  /\ r.kind = "tail"
                 /\ StrictlyAscending(ids)
                 /\ {ids[i] : i \in 1 .. Len(ids)}
                        = {id \in IdsOf(BetsOf(stream_id)) : id > since_id}
                 /\ r.last_id = IF ids = <<>> THEN Null ELSE Some(ids[Len(ids)])
                 /\ \A i \in 1 .. Len(ids) :
                       \E b \in BetsOf(stream_id) :
                          /\ b.id = ids[i]
                          /\ b.nonce = r.bets[i].nonce
                          /\ b.antebot_bet_id = r.bets[i].antebot_bet_id
    /\ LET p == calls[Poller]
       IN  /\ StrictlyAscending(p.received)
           /\ {p.received[i] : i \in 1 .. Len(p.received)}
                  = {id \in IdsOf(BetsOf(p.stream_id)) : id <= p.since_id}
           /\ p.since_id = IF p.received = <<>> THEN 0 ELSE p.received[Len(p.received)]

\* the client was given a bet by an earlier poll and is given another one, of
\* an ingest that was in flight during its polls, by this one
C23_Witness ==
    LET p == calls[Poller]
    IN  /\ p.pc = "answered"
        /\ p.received # <<>>
        /\ p.response.kind = "tail"
        /\ p.response.bets # <<>>
        /\ PendingIngests # {}

\* C28: with include_distance every bet a tail response returns carries the
\* distance to the previous hit of its round_result among all the bets of the
\* stream, those with id <= since_id included: its nonce minus the nonce of
\* the row before it in nonce order, null when it is the first of its
\* round_result in the stream.
C28_TailDistanceCountsEarlierBets ==
    resp.kind = "tail" /\ resp.include_distance =>
        \A i \in 1 .. Len(resp.bets) :
            \E tie \in TieOrders, b \in BetsOf(resp.stream_id) :
                /\ b.id = resp.bets[i].id
                /\ resp.bets[i].distance_prev_opt
                       = DistancePrev(BetsOf(resp.stream_id), b, tie)

\* C30: an ingest that is answered with an error has stored nothing: it leaves
\* the streams and bets as they were, and in particular a stream it created
\* for its bet is not left stored.
C30_FailedIngestLeavesNothing ==
    \A c \in AnsweredIngests :
        calls[c].response.kind = "error" /\ calls[c].created_stream
            => ~StreamExists(calls[c].stream_id)

\* C24: in a listing by ascending nonce, bets of the stream that share a nonce
\* come in ascending id order, whatever order the engine produces for rows
\* that the ORDER BY clause leaves equal.
C24_EqualNoncesComeInArrivalOrder ==
    resp.kind = "bets" /\ resp.order = "nonce_asc" =>
        \A i, j \in 1 .. Len(resp.bets) :
            i < j /\ resp.bets[i].nonce = resp.bets[j].nonce
                => resp.bets[i].id < resp.bets[j].id

StoredColumns(row) ==
    [id |-> row.id, stream_id |-> row.stream_id, antebot_bet_id |-> row.antebot_bet_id,
     nonce |-> row.nonce, round_result |-> row.round_result]

EndedMigrations == {c \in Clients : At(c, "migration", "done")}

\* C27: when add_bucket_2dp_column has ended, with success or with a failure,
\* live_bets holds the rows it held before, each with the same id and the same
\* values, and a run on a database that has the column changes nothing.
C27_MigrationKeepsTheBets ==
    \A c \in EndedMigrations :
        /\ {StoredColumns(row) : row \in live_bets}
               = {StoredColumns(row) : row \in calls[c].rows_at_start}
        /\ "bucket_2dp" \in calls[c].tables_at_start =>
               /\ live_bets = calls[c].rows_at_start
               /\ sqlite_master = calls[c].tables_at_start
               /\ live_bets_backup = calls[c].backup_at_start

\* a bucket key read as a result again: hundredths as thousandths
BucketAsResult(bucket_2dp) == bucket_2dp * 10

\* C26: the bucket key stored with a bet is its round_result rounded to two
\* decimal places, a hundredth no further than half a hundredth from the
\* result, and quantizing a key again gives the same key, for every
\* non-negative result.
C26_BucketKeyIsTheRoundedResult ==
    "bucket_2dp" \in sqlite_master =>
        \A row \in live_bets :
            LET key == Bucket2dp(row.round_result[1])
            IN  /\ row.bucket_2dp = key
                /\ Abs(BucketAsResult(key) - row.round_result[1]) <= 5
                /\ Bucket2dp(BucketAsResult(row.bucket_2dp)) = row.bucket_2dp

\* the migrated table holds the bet of the test: 11200.123 with key 11200.12
C26_Witness ==
    /\ "bucket_2dp" \in sqlite_master
    /\ \E row \in live_bets :
          row.round_result = Some(11200123) /\ row.bucket_2dp = 1120012

\* C29: for every multiplier of a metrics response with at least two
\* occurrences, every gap is >= 0, the gaps sum to the largest nonce minus the
\* smallest nonce of the occurrences, so mean_gap times the number of gaps is
\* that difference, and mean_gap lies between the smallest gap and max_gap.
C29_GapsSumToTheNonceSpan ==
    IsMetrics =>
        \A i \in EntryIndexes, tie \in TieOrders :
            resp.multiplier_stats[i].count >= 2 =>
                LET entry == resp.multiplier_stats[i]
                    gaps == GapsOf(MultiplierRows(live_bets, resp.stream_id,
                                                  resp.multipliers[i], resp.tolerance, tie))
                    first == CHOOSE n \in EntryNonces(i) : \A o \in EntryNonces(i) : n <= o
                    span == SetMax(EntryNonces(i)) - first
                IN  /\ Len(gaps) = entry.count - 1
                    /\ \A k \in 1 .. Len(gaps) : gaps[k] >= 0
                    /\ SeqSum(gaps) = span
                    /\ entry.mean_gap # Null
                    /\ entry.mean_gap[1].num * Len(gaps) = span * entry.mean_gap[1].den
                    /\ Sorted(gaps)[1] * entry.mean_gap[1].den <= entry.mean_gap[1].num
                    /\ entry.mean_gap[1].num <= entry.max_gap[1] * entry.mean_gap[1].den

\* three occurrences at the nonces 1, 1 and 3: the gaps 0 and 2, mean 1, max 2
C29_Witness ==
    /\ IsMetrics
    /\ \E i \in EntryIndexes :
          /\ resp.multiplier_stats[i].count = 3
          /\ resp.multiplier_stats[i].mean_gap = Some(Rat(1, 1))
          /\ resp.multiplier_stats[i].max_gap = Some(2)
          /\ Cardinality(EntryNonces(i)) = 2

====
